---- MODULE Spec2Model ----
(***************************************************************************)
(* HubSpot form recovery service: main.py (prepare / batch / single-email  *)
(* / run-all runners with kill switch and dry-run override) and app.py     *)
(* (prep + resume runner).                                                 *)
(*                                                                         *)
(* Python values are represented as follows.                               *)
(*   str    a sequence of one-character strings, "" is << >>               *)
(*   None   the distinguished value None                                   *)
(*   dict   a function with a finite domain of keys; an insertion-ordered  *)
(*          dict whose order matters (the form map) is a sequence of       *)
(*          entries                                                        *)
(* Field and property NAMES are never transformed by the code and are      *)
(* plain TLA+ strings; the falsy names (None, "") are both "".             *)
(***************************************************************************)
EXTENDS Integers, Sequences, FiniteSets, TLC

\* ------------------------------------------------------------------------
\* Python values
\* ------------------------------------------------------------------------

None == <<"None">>
EmptyStr == << >>
Space == <<" ">>
Checked == <<"C", "h", "e", "c", "k", "e", "d">>
NotChecked == <<"N", "o", "t", " ", "C", "h", "e", "c", "k", "e", "d">>

\* e-mail addresses of the model
Jane == <<"j", "@", "x">>
JaneUpper == <<"J", "@", "X">>
Bob == <<"b", "@", "x">>

\* the values the code treats as "empty" on a contact: (None, "", " ")
Blank == {None, EmptyStr, Space}

\* Python truthiness of an Optional[str]
Truthy(v) == v # None /\ v # EmptyStr

EmptyDict == [k \in {} |-> None]

\* dict.get(key) with the default None
Get(d, k) == IF k \in DOMAIN d THEN d[k] ELSE None

\* d[k] = v
Put(d, k, v) == [x \in (DOMAIN d) \cup {k} |-> IF x = k THEN v ELSE d[x]]

\* str.lower() on the alphabet of the model
LowerChar(c) ==
  CASE c = "J" -> "j"
    [] c = "X" -> "x"
    [] c = "B" -> "b"
    [] c = "C" -> "c"
    [] c = "N" -> "n"
    [] OTHER -> c

Lower(s) == [i \in DOMAIN s |-> LowerChar(s[i])]

\* str.strip(): leading and trailing whitespace removed
RECURSIVE LStrip(_)
LStrip(s) == IF s # << >> /\ Head(s) = " " THEN LStrip(Tail(s)) ELSE s

RECURSIVE RStrip(_)
RStrip(s) ==
  IF s # << >> /\ s[Len(s)] = " " THEN RStrip(SubSeq(s, 1, Len(s) - 1)) ELSE s

Strip(s) == RStrip(LStrip(s))

\* ------------------------------------------------------------------------
\* Configuration (main.py): HUBSPOT_FORM_PROPERTY_MAP, an ordered dict
\* form id -> ordered dict form field -> CRM property
\* ------------------------------------------------------------------------

Pair(f, p) == [field |-> f, prop |-> p]

MapScenario == << [form |-> "f1", map |-> << Pair("opt_in", "marketing_opt_in") >>] >>

MapTwoProps ==
  << [form |-> "f1",
      map |-> << Pair("opt_in", "marketing_opt_in"), Pair("terms", "terms_accepted") >>] >>

MapSharedProp ==
  << [form |-> "f1",
      map |-> << Pair("opt_in", "marketing_opt_in"), Pair("terms", "marketing_opt_in") >>] >>

MapTwoForms ==
  << [form |-> "f1", map |-> << Pair("opt_in", "marketing_opt_in") >>],
     [form |-> "f2", map |-> << Pair("terms", "terms_accepted") >>] >>

FormFields == {"opt_in", "terms"}
CrmProps == {"marketing_opt_in", "terms_accepted"}
FieldValues == {None, EmptyStr, Space, Checked, NotChecked}

\* every dict with keys among K and values among V
Dicts(K, V) == UNION {[D -> V] : D \in SUBSET K}

VARIABLES
  FORM_PROPERTY_MAP,  \* main.py:39, set once at start-up
  pl_pc,              \* planner harness: position
  pl_form,            \* planner harness: form_id argument
  pl_fields,          \* planner harness: submission_fields argument
  pl_contact,         \* planner harness: contact argument
  pl_first,           \* planner harness: plan of the first call
  pl_plan             \* planner harness: plan of the latest call

VARIABLES
  d_pc,               \* dedupe harness: position
  d_subs,             \* dedupe harness: the raw submissions, in fetch order
  d_out               \* dedupe harness: the deduplicated result

VARIABLES
  KILLED,             \* main.py:101, the in-memory kill switch
  DRY_RUN_FORCE,      \* main.py:28, set once at start-up
  served,             \* upstream: form id -> its submissions, newest first
  crm,                \* upstream: contact id -> the contact's properties
  prepared,           \* PREPARED_DIR/<form>.json: form id -> snapshot file
  csv,                \* PREPARED_DIR/<form>.csv: form id -> csv file
  job,                \* the running main.py request: position and locals
  control             \* the latest answer of /kill, /unkill or /status

VARIABLES
  client              \* a caller of /run-form/{id}/batch following next_offset

VARIABLES
  call                \* main.py: one invocation of safe_request

VARIABLES
  fetched             \* main.py: a response body and the page made of it

VARIABLES
  threads,            \* app.py: the background job threads of /run-all
  job_status,         \* app.py: data/job_status.json
  uploaded,           \* app.py: /etc/secrets/deduped_submissions.jsonl
  page_files,         \* app.py: data/submissions_page_NNNN.jsonl, by number
  deduped_file,       \* app.py: data/deduped_submissions.jsonl
  latest_export       \* app.py: /tmp/deduped_submissions.csv

plannerVars == <<pl_pc, pl_form, pl_fields, pl_contact, pl_first, pl_plan>>
dedupeVars == <<d_pc, d_subs, d_out>>
mainVars == <<KILLED, DRY_RUN_FORCE, prepared, csv, job, control>>
upstreamVars == <<served, crm>>
appVars == <<threads, job_status, uploaded, page_files, deduped_file, latest_export>>

vars == <<FORM_PROPERTY_MAP, plannerVars, dedupeVars, mainVars, upstreamVars, appVars, client, call, fetched>>

\* what the actions of one part leave alone
notPlanner == <<dedupeVars, mainVars, upstreamVars, appVars, client, call, fetched>>
notDedupe == <<FORM_PROPERTY_MAP, plannerVars, mainVars, upstreamVars, appVars, client, call, fetched>>
notMain == <<FORM_PROPERTY_MAP, plannerVars, dedupeVars, appVars, call, fetched>>
notApp == <<FORM_PROPERTY_MAP, plannerVars, dedupeVars, mainVars, client, call, fetched>>
notCall ==
  <<FORM_PROPERTY_MAP, plannerVars, dedupeVars, mainVars, upstreamVars, appVars, client, fetched>>
notPaging ==
  <<FORM_PROPERTY_MAP, plannerVars, dedupeVars, mainVars, upstreamVars, appVars, client, call>>

PlannerIdle ==
  /\ pl_pc = "off"
  /\ pl_form = "f1"
  /\ pl_fields = EmptyDict
  /\ pl_contact = [id |-> "42"]
  /\ pl_first = EmptyDict
  /\ pl_plan = EmptyDict

DedupeIdle ==
  /\ d_pc = "off"
  /\ d_subs = << >>
  /\ d_out = << >>

\* after: Optional[str] = None; the tokens of the upstream are page numbers
NoToken == 0

NoFile == [exists |-> FALSE, content |-> << >>]
File(content) == [exists |-> TRUE, content |-> content]

\* "next_offset": None in a batch summary
NoOffset == 0 - 1

NoControl == [endpoint |-> "", credential |-> None, code |-> 0, status |-> ""]

ClientOff == [pc |-> "off", form |-> "", limit |-> 0, offset |-> 0, calls |-> 0,
              processed |-> << >>]

IdleJob ==
  [pc |-> "idle", kind |-> "none", credential |-> None,
   form |-> "", mode |-> "", formIdx |-> 0, next_offset |-> NoOffset,
   after |-> NoToken, next_after |-> NoToken, results |-> << >>, i |-> 0,
   all_results |-> << >>, email |-> None, fields |-> EmptyDict,
   contact_id |-> "", updates |-> EmptyDict,
   batch |-> << >>, offset |-> 0, end |-> 0, total |-> 0,
   processed_count |-> 0, updated_count |-> 0, not_found_count |-> 0,
   remaining |-> 0,
   requests |-> << >>, response |-> [code |-> 0, status |-> ""]]

MainIdle ==
  /\ KILLED = FALSE
  /\ DRY_RUN_FORCE = FALSE
  /\ prepared = << >>
  /\ csv = << >>
  /\ job = IdleJob
  /\ control = NoControl
  /\ client = ClientOff

UpstreamIdle ==
  /\ served = << >>
  /\ crm = << >>

NoCall == [pc |-> "off", caller |-> 0, attempt |-> 0, answers |-> << >>,
           sleeps |-> << >>, slowdown |-> << >>]

NoBody == [pc |-> "off", data |-> None, page |-> None]

CallIdle == call = NoCall /\ fetched = NoBody

IdleThread ==
  [pc |-> "idle", form |-> "", start_email |-> None, limit |-> 0,
   subs |-> << >>, total |-> 0, stop |-> 0, i |-> 0, success |-> 0, errors |-> 0,
   cid |-> "", boxes |-> EmptyDict, after |-> NoToken, page_idx |-> 1,
   requests |-> << >>, written |-> << >>]

\* a thread whose background_job has returned: what is kept of it is its
\* mode (start_email), the requests it sent and the sequence of statuses it
\* wrote to the job-status file
EndedThread(th, written) ==
  [IdleThread EXCEPT !.pc = "ended", !.start_email = th.start_email,
                     !.requests = th.requests, !.written = written]

AppIdle ==
  /\ threads = << >>
  /\ job_status = NoFile
  /\ uploaded = NoFile
  /\ page_files = << >>
  /\ deduped_file = NoFile
  /\ latest_export = NoFile

\* ------------------------------------------------------------------------
\* Merge / update planner (main.py)
\* ------------------------------------------------------------------------

ConfiguredForms(fpm) == {fpm[i].form : i \in DOMAIN fpm}

\* FORM_PROPERTY_MAP.get(form_id, {})
MapForForm(fpm, form_id) ==
  IF form_id \in ConfiguredForms(fpm)
  THEN (CHOOSE e \in {fpm[i] : i \in DOMAIN fpm} : e.form = form_id).map
  ELSE << >>

\* contact.get("properties", {}) or {}
ExistingProps(contact) ==
  IF "properties" \in DOMAIN contact THEN contact.properties ELSE EmptyDict

\* mutant: the existing value is never looked at
AlreadySet_NoCheck(existing_val) == FALSE

\* mutant: a single space is no longer counted as empty
AlreadySet_SpaceIsSet(existing_val) == existing_val \notin {None, EmptyStr}

\* existing_val not in (None, "", " ")
AlreadySet(existing_val) == existing_val \notin Blank

\* mutant: "if not val" in place of "if val is None"
FieldMissing_Falsy(val) == ~Truthy(val)

\* val is None
FieldMissing(val) == val = None

RECURSIVE StageUpdates(_, _, _, _)
StageUpdates(pairs, submission_fields, existing_props, updates) ==
  IF pairs = << >> THEN updates
  ELSE LET form_field == Head(pairs).field
           hubspot_prop == Head(pairs).prop
           val == Get(submission_fields, form_field)
           existing_val == Get(existing_props, hubspot_prop)
       IN IF FieldMissing(val)
          THEN StageUpdates(Tail(pairs), submission_fields, existing_props, updates)
          ELSE IF AlreadySet(existing_val)
          THEN StageUpdates(Tail(pairs), submission_fields, existing_props, updates)
          ELSE StageUpdates(Tail(pairs), submission_fields, existing_props,
                            Put(updates, hubspot_prop, val))

compute_updates_for_submission(fpm, form_id, submission_fields, contact) ==
  StageUpdates(MapForForm(fpm, form_id), submission_fields,
               ExistingProps(contact), EmptyDict)

\* mutant: a PATCH that clears a property which already holds the sent value
ApplyProperties_ClearsOnRepeat(props, updates) ==
  [p \in (DOMAIN props) \cup (DOMAIN updates) |->
     IF p \notin DOMAIN updates THEN props[p]
     ELSE IF p \in DOMAIN props /\ props[p] = updates[p] THEN None
     ELSE updates[p]]

\* the CRM's PATCH semantics: the named properties take the sent values
ApplyProperties(props, updates) ==
  [p \in (DOMAIN props) \cup (DOMAIN updates) |->
     IF p \in DOMAIN updates THEN updates[p] ELSE props[p]]

\* ------------------------------------------------------------------------
\* Planner harness: compute_updates_for_submission on every input
\* ------------------------------------------------------------------------

PlannerConfigs == {MapScenario, MapTwoProps, MapSharedProp}
PlannerForms == {"f1", "zz"}

InitPlanner ==
  /\ FORM_PROPERTY_MAP \in PlannerConfigs
  /\ CallIdle
  /\ pl_pc = "input"
  /\ pl_form \in PlannerForms
  /\ pl_fields \in {Put(d, "email", Jane) : d \in Dicts(FormFields, FieldValues)}
  /\ pl_contact \in
       {[id |-> "42"]} \cup {[id |-> "42", properties |-> d] : d \in Dicts(CrmProps, FieldValues)}
  /\ pl_first = EmptyDict
  /\ pl_plan = EmptyDict
  /\ DedupeIdle
  /\ MainIdle
  /\ UpstreamIdle
  /\ AppIdle

PlanFirst ==
  /\ pl_pc = "input"
  /\ pl_first' = compute_updates_for_submission(FORM_PROPERTY_MAP, pl_form, pl_fields, pl_contact)
  /\ pl_plan' = pl_first'
  /\ pl_pc' = "planned"
  /\ UNCHANGED <<FORM_PROPERTY_MAP, pl_form, pl_fields, pl_contact, notPlanner>>

PlanAgain ==
  /\ pl_pc = "planned"
  /\ pl_plan' = compute_updates_for_submission(FORM_PROPERTY_MAP, pl_form, pl_fields, pl_contact)
  /\ pl_pc' = "planned_twice"
  /\ UNCHANGED <<FORM_PROPERTY_MAP, pl_form, pl_fields, pl_contact, pl_first, notPlanner>>

ApplyPlan ==
  /\ pl_pc \in {"planned", "planned_twice"}
  /\ pl_contact' =
       [id |-> pl_contact.id,
        properties |-> ApplyProperties(ExistingProps(pl_contact), pl_first)]
  /\ pl_pc' = "applied"
  /\ UNCHANGED <<FORM_PROPERTY_MAP, pl_form, pl_fields, pl_first, pl_plan, notPlanner>>

PlanAfterApply ==
  /\ pl_pc = "applied"
  /\ pl_plan' = compute_updates_for_submission(FORM_PROPERTY_MAP, pl_form, pl_fields, pl_contact)
  /\ pl_pc' = "replanned"
  /\ UNCHANGED <<FORM_PROPERTY_MAP, pl_form, pl_fields, pl_contact, pl_first, notPlanner>>

NextPlanner == PlanFirst \/ PlanAgain \/ ApplyPlan \/ PlanAfterApply

SpecPlanner == InitPlanner /\ [][NextPlanner]_vars

\* pl_plan is the plan of a call made on the current pl_contact
PlanIsFresh == pl_pc \in {"planned", "planned_twice", "replanned"}

(* C1: the plan never contains a CRM property whose value on the passed
   contact is anything other than None, "" or " ", whatever the submission
   carries for the mapped field. *)
C1_FillOnlyBlanks ==
  PlanIsFresh =>
    \A p \in DOMAIN pl_plan : Get(ExistingProps(pl_contact), p) \in Blank

\* a call whose contact holds a non-empty value for a mapped property for
\* which the submission carries a value, next to a property that is staged
C1_Witness ==
  /\ pl_pc = "planned"
  /\ pl_plan # EmptyDict
  /\ \E i \in DOMAIN MapForForm(FORM_PROPERTY_MAP, pl_form) :
       LET pr == MapForForm(FORM_PROPERTY_MAP, pl_form)[i]
       IN /\ Get(pl_fields, pr.field) # None
          /\ Get(ExistingProps(pl_contact), pr.prop) \notin Blank

\* the staged values that are themselves empty
BlankStaged(plan) == {p \in DOMAIN plan : plan[p] \in Blank}

Restrict(d, K) == [k \in (DOMAIN d) \cap K |-> d[k]]

(* C9 (as stated): a second call on the same inputs returns the same plan,
   and a call on the contact state obtained by applying the first plan
   returns either the same plan or the empty plan, the empty plan whenever
   every staged value is non-empty. *)
C9_SameOrEmpty ==
  /\ pl_pc = "planned_twice" => pl_plan = pl_first
  /\ pl_pc = "replanned" =>
       /\ pl_plan = pl_first \/ pl_plan = EmptyDict
       /\ BlankStaged(pl_first) = {} => pl_plan = EmptyDict

(* C9 (amended): a second call on the same inputs returns the same plan,
   and a call on the contact state obtained by applying the first plan
   returns the first plan restricted to the properties whose staged value is
   itself "" or " ": the same plan when every staged value is empty, the
   empty plan when every staged value is non-empty, a proper non-empty part
   of it otherwise. *)
C9_ReplanKeepsBlankStaged ==
  /\ pl_pc = "planned_twice" => pl_plan = pl_first
  /\ pl_pc = "replanned" => pl_plan = Restrict(pl_first, BlankStaged(pl_first))

\* the plan after the write is neither the first plan nor empty
C9_Witness ==
  /\ pl_pc = "replanned"
  /\ pl_plan # pl_first
  /\ pl_plan # EmptyDict

\* the configured pairs whose field the submission carries (non-null) and
\* whose property is empty on the contact
QualifyingPairs(pairs, fields, existing) ==
  {i \in DOMAIN pairs :
     /\ Get(fields, pairs[i].field) # None
     /\ Get(existing, pairs[i].prop) \in {None, EmptyStr, Space}}

(* C10: the plan is exactly {crm_property -> fields[form_field]} over the
   configured pairs whose form field has a non-null value in the submission
   and whose CRM property is None, "" or " " on the contact: every such
   property is in the plan, no other property is, and the value is the one
   of the pair (of the last such pair in map order when several pairs name
   the same property). The scenario of the specification is a case of it. *)
C10_PlanIsExactlyTheBlankFills ==
  PlanIsFresh =>
    LET pairs == MapForForm(FORM_PROPERTY_MAP, pl_form)
        existing == ExistingProps(pl_contact)
        Q == QualifyingPairs(pairs, pl_fields, existing)
    IN /\ DOMAIN pl_plan = {pairs[i].prop : i \in Q}
       /\ \A i \in Q :
            (\A j \in Q : pairs[j].prop = pairs[i].prop => j <= i)
               => pl_plan[pairs[i].prop] = pl_fields[pairs[i].field]
       /\ ( /\ FORM_PROPERTY_MAP = MapScenario
            /\ pl_form = "f1"
            /\ pl_fields = [email |-> Jane, opt_in |-> Checked] )
          => /\ existing = [marketing_opt_in |-> EmptyStr]
                  => pl_plan = [marketing_opt_in |-> Checked]
             /\ existing = [marketing_opt_in |-> Checked]
                  => pl_plan = EmptyDict

\* the scenario of the specification, on the contact whose property is ""
C10_Witness ==
  /\ pl_pc = "planned"
  /\ FORM_PROPERTY_MAP = MapScenario
  /\ pl_form = "f1"
  /\ pl_fields = [email |-> Jane, opt_in |-> Checked]
  /\ ExistingProps(pl_contact) = [marketing_opt_in |-> EmptyStr]
  /\ pl_plan = [marketing_opt_in |-> Checked]

\* ------------------------------------------------------------------------
\* Submission parsers
\* ------------------------------------------------------------------------

\* a raw submission of the form-integrations API: the ordered values list,
\* and the submission times (0: the key is absent, null or 0, which
\* "x or y or 0" does not tell apart)
Submission(values, submittedAt, timestamp) ==
  [values |-> values, submittedAt |-> submittedAt, timestamp |-> timestamp]

Value(name, value) == [name |-> name, value |-> value]

\* main.py: every named value goes to the field map, the value named
\* "email" is the e-mail (the last one wins), nothing is trimmed
RECURSIVE ExtractLoop(_, _, _)
ExtractLoop(submitted_values, email, submission_fields) ==
  IF submitted_values = << >>
  THEN [email |-> email, fields |-> submission_fields]
  ELSE LET name == Head(submitted_values).name
           val == Head(submitted_values).value
       IN ExtractLoop(Tail(submitted_values),
                      IF name = "email" THEN val ELSE email,
                      IF name # "" THEN Put(submission_fields, name, val)
                                   ELSE submission_fields)

extract_submission_email_and_fields(submission) ==
  ExtractLoop(submission.values, None, EmptyDict)

\* app.py: HUBSPOT_CHECKBOX_PROPERTIES (the default of the environment)
TermsProp == "i_agree_to_vrm_mortgage_services_s_terms_of_service_and_privacy_policy"
MarketingProp ==
  "select_to_receive_information_from_vrm_mortgage_services_regarding_events_and_property_information"
CHECKBOX_PROPERTIES == {TermsProp, MarketingProp}

\* app.py: non-string names and values are skipped, the e-mail is trimmed,
\* a configured checkbox is kept when its trimmed value is one of the two
\* checkbox words
RECURSIVE ParseLoop(_, _, _)
ParseLoop(vals, email, consent) ==
  IF vals = << >> THEN [email |-> email, consent |-> consent]
  ELSE LET name == Head(vals).name
           val == Head(vals).value
       IN IF val = None
          THEN ParseLoop(Tail(vals), email, consent)
          ELSE IF name = "email"
          THEN ParseLoop(Tail(vals), Strip(val), consent)
          ELSE IF name \in CHECKBOX_PROPERTIES /\ Strip(val) \in {Checked, NotChecked}
          THEN ParseLoop(Tail(vals), email, Put(consent, name, Strip(val)))
          ELSE ParseLoop(Tail(vals), email, consent)

parse_submission(s) == ParseLoop(s.values, None, EmptyDict)

\* ------------------------------------------------------------------------
\* Deduplication
\* ------------------------------------------------------------------------

\* mutant: the seen set is keyed by the e-mail as written
SeenKey_AsWritten(email) == email

\* main.py: email_lower = email.lower()
SeenKey(email) == Lower(email)

RECURSIVE DedupeLoop(_, _, _)
DedupeLoop(submissions, seen_emails, deduped) ==
  IF submissions = << >> THEN deduped
  ELSE LET x == extract_submission_email_and_fields(Head(submissions))
       IN IF ~Truthy(x.email)
          THEN DedupeLoop(Tail(submissions), seen_emails, deduped)
          ELSE IF SeenKey(x.email) \in seen_emails
          THEN DedupeLoop(Tail(submissions), seen_emails, deduped)
          ELSE DedupeLoop(Tail(submissions), seen_emails \cup {SeenKey(x.email)},
                          Append(deduped, [email |-> x.email, submission_fields |-> x.fields]))

dedupe_submissions_newest_first(submissions) == DedupeLoop(submissions, {}, << >>)

\* app.py: the pages of at most PageSize submissions each, as fetch_submissions
\* saves them (one file per page) and as the upstream serves them
PageSize == 1

RECURSIVE PaginateBy(_, _)
PaginateBy(list, size) ==
  IF list = << >> THEN << >>
  ELSE IF Len(list) <= size THEN << list >>
  ELSE << SubSeq(list, 1, size) >> \o PaginateBy(SubSeq(list, size + 1, Len(list)), size)

Paginate(list) == PaginateBy(list, PageSize)

\* s.get("submittedAt") or s.get("timestamp") or 0
SubmissionTime(s) ==
  IF s.submittedAt # 0 THEN s.submittedAt
  ELSE IF s.timestamp # 0 THEN s.timestamp
  ELSE 0

\* latest[email].get("submittedAt") or 0
KeptTime(s) == s.submittedAt

\* the insertion-ordered dict latest: a sequence of [key, value] entries
DictKeys(d) == {d[i].key : i \in DOMAIN d}
DictAt(d, k) == (CHOOSE e \in {d[i] : i \in DOMAIN d} : e.key = k).value
DictSet(d, k, v) ==
  IF k \in DictKeys(d)
  THEN [i \in DOMAIN d |-> IF d[i].key = k THEN [key |-> k, value |-> v] ELSE d[i]]
  ELSE Append(d, [key |-> k, value |-> v])
DictValues(d) == [i \in DOMAIN d |-> d[i].value]

RECURSIVE LatestOfLines(_, _)
LatestOfLines(lines, latest) ==
  IF lines = << >> THEN latest
  ELSE LET s == Head(lines)
           email == parse_submission(s).email
           t == SubmissionTime(s)
       IN IF ~Truthy(email)
          THEN LatestOfLines(Tail(lines), latest)
          ELSE IF email \notin DictKeys(latest) \/ t > KeptTime(DictAt(latest, email))
          THEN LatestOfLines(Tail(lines), DictSet(latest, email, s))
          ELSE LatestOfLines(Tail(lines), latest)

RECURSIVE LatestOfFiles(_, _)
LatestOfFiles(files, latest) ==
  IF files = << >> THEN latest
  ELSE LatestOfFiles(Tail(files), LatestOfLines(Head(files), latest))

\* app.py dedupe_submissions over the page files, in sorted file order
dedupe_submissions(files) == DictValues(LatestOfFiles(files, << >>))

\* ------------------------------------------------------------------------
\* Dedupe harness: both deduplications on every list of submissions
\* ------------------------------------------------------------------------

MaxSubs == 3

\* Jane's address as typed with a leading blank
JanePadded == Space \o Jane

SampleEmails == {Jane, JaneUpper, JanePadded, Bob, EmptyStr}

\* <<submittedAt, timestamp>> with the opt_in value submitted at that time
SampleTimes == { <<1, 0, Checked>>, <<2, 0, NotChecked>>, <<0, 3, EmptyStr>> }

SampleSubmissions ==
  { Submission(<< Value("email", e), Value("opt_in", t[3]) >>, t[1], t[2]) :
      e \in SampleEmails, t \in SampleTimes }
  \cup { Submission(<< Value("opt_in", t[3]) >>, t[1], t[2]) : t \in SampleTimes }

SubmissionLists == UNION {[1..n -> SampleSubmissions] : n \in 0..MaxSubs}

InitDedupe ==
  /\ FORM_PROPERTY_MAP = MapScenario
  /\ CallIdle
  /\ PlannerIdle
  /\ d_pc = "input"
  /\ d_subs \in SubmissionLists
  /\ d_out = << >>
  /\ MainIdle
  /\ UpstreamIdle
  /\ AppIdle

\* main.py: prepare_run's dedupe of the fetched list
DedupeNewestFirst ==
  /\ d_pc = "input"
  /\ d_out' = dedupe_submissions_newest_first(d_subs)
  /\ d_pc' = "deduped_main"
  /\ UNCHANGED <<d_subs, notDedupe>>

\* app.py: the prep job's dedupe of the saved page files; without any page
\* file it raises HTTPException(404)
DedupeSubmissions ==
  /\ d_pc = "input"
  /\ IF Paginate(d_subs) = << >>
     THEN d_pc' = "no_snapshots" /\ d_out' = d_out
     ELSE d_pc' = "deduped_app" /\ d_out' = dedupe_submissions(Paginate(d_subs))
  /\ UNCHANGED <<d_subs, notDedupe>>

NextDedupe == DedupeNewestFirst \/ DedupeSubmissions

SpecDedupe == InitDedupe /\ [][NextDedupe]_vars

EmailOf(i) == extract_submission_email_and_fields(d_subs[i]).email

\* the submissions that are the first of their e-mail, letter case ignored
FirstOfEmail ==
  {i \in DOMAIN d_subs :
     /\ Truthy(EmailOf(i))
     /\ \A j \in 1..(i - 1) :
          ~(Truthy(EmailOf(j)) /\ Lower(EmailOf(j)) = Lower(EmailOf(i)))}

(* C7: dedupe_submissions_newest_first returns at most one entry per e-mail,
   letter case ignored; the entry of an e-mail is built from the first
   submission with that e-mail in input order; the entries keep the input
   order; submissions without an e-mail are dropped. *)
C7_FirstPerEmailInOrder ==
  d_pc = "deduped_main" =>
    /\ \A k1, k2 \in DOMAIN d_out :
         Lower(d_out[k1].email) = Lower(d_out[k2].email) => k1 = k2
    /\ Len(d_out) = Cardinality(FirstOfEmail)
    /\ \A i \in FirstOfEmail :
         LET k == Cardinality({j \in FirstOfEmail : j <= i})
             x == extract_submission_email_and_fields(d_subs[i])
         IN d_out[k] = [email |-> x.email, submission_fields |-> x.fields]

\* an input with the same e-mail twice, in two letter cases, and a
\* submission without e-mail, deduplicated to fewer entries
C7_Witness ==
  /\ d_pc = "deduped_main"
  /\ \E i, j \in DOMAIN d_subs :
       /\ i < j
       /\ Truthy(EmailOf(i)) /\ Truthy(EmailOf(j))
       /\ EmailOf(i) # EmailOf(j)
       /\ Lower(EmailOf(i)) = Lower(EmailOf(j))
  /\ \E i \in DOMAIN d_subs : ~Truthy(EmailOf(i))
  /\ Len(d_out) = 1

AppEmailOf(s) == parse_submission(s).email

(* C8: dedupe_submissions keeps exactly one submission per e-mail, e-mails
   differing only in letter case counting as the same, and the one kept has
   the greatest submission time (submittedAt, else timestamp) among the
   submissions of that e-mail, whatever the order they are read in. *)
C8_OnePerEmailGreatestTime ==
  d_pc = "deduped_app" =>
    \A i \in DOMAIN d_subs :
      Truthy(AppEmailOf(d_subs[i])) =>
        LET same == {k \in DOMAIN d_out :
                       Lower(AppEmailOf(d_out[k])) = Lower(AppEmailOf(d_subs[i]))}
        IN /\ Cardinality(same) = 1
           /\ \A k \in same : SubmissionTime(d_out[k]) >= SubmissionTime(d_subs[i])

(* C17: both parsers return the e-mail without leading and trailing
   whitespace, so that both deduplications keep one entry for submissions
   whose e-mails differ only in surrounding whitespace. *)
C17_EmailsAreTrimmed ==
  /\ d_pc = "deduped_main" =>
       /\ \A k \in DOMAIN d_out : d_out[k].email = Strip(d_out[k].email)
       /\ \A k1, k2 \in DOMAIN d_out :
            Strip(d_out[k1].email) = Strip(d_out[k2].email) => k1 = k2
  /\ d_pc = "deduped_app" =>
       /\ \A k \in DOMAIN d_out : AppEmailOf(d_out[k]) = Strip(AppEmailOf(d_out[k]))
       /\ \A k1, k2 \in DOMAIN d_out :
            Strip(AppEmailOf(d_out[k1])) = Strip(AppEmailOf(d_out[k2])) => k1 = k2

\* ------------------------------------------------------------------------
\* main.py: upstream requests
\* ------------------------------------------------------------------------

\* a request as the log keeps it: answer is the status it was answered with
GetRequest(form_id, after) ==
  [method |-> "GET", form |-> form_id, after |-> after, answer |-> 0]
SearchRequest(email) == [method |-> "POST", email |-> email, answer |-> 0]
PatchRequest(contact_id, properties) ==
  [method |-> "PATCH", id |-> contact_id, properties |-> properties, answer |-> 0]

\* One page of the submissions endpoint. The upstream serves the form's
\* submissions in pages of PageSize; the token of a page is its number. The
\* last non-empty page either carries no token or (tail) a token to an
\* empty page.  An upstream may state a page size of its own.
UpstreamPageSize ==
  IF "page_size" \in DOMAIN served THEN served["page_size"] ELSE PageSize

fetch_form_submissions(form_id, after, tail) ==
  LET pages == PaginateBy(served[form_id], UpstreamPageSize)
      k == IF after # NoToken THEN after ELSE 1
      results == IF k <= Len(pages) THEN pages[k] ELSE << >>
      next_after == IF k < Len(pages) \/ (k = Len(pages) /\ tail) THEN k + 1 ELSE NoToken
  IN [results |-> results, after |-> next_after]

\* "properties": ["email"] in the search body
SearchProperties == {"email"}

\* The contact search: the contacts whose email equals the value, at most
\* "limit": 1 of them, each with the requested properties only.
\* data["results"][0] if data.get("results") else None: << >> is None.
get_contact_by_email(email) ==
  LET hits == {id \in DOMAIN crm : crm[id]["email"] = email}
  IN IF hits = {} THEN << >>
     ELSE LET id == CHOOSE h \in hits : TRUE
          IN << [id |-> id, properties |-> Restrict(crm[id], SearchProperties)] >>

\* "smoke" if DRY_RUN_FORCE else mode
effective_mode(mode) == IF DRY_RUN_FORCE THEN "smoke" ELSE mode

\* mutant: only an empty plan keeps the PATCH back
SkipsWrite_EmptyPlanOnly(mode, updates) == updates = EmptyDict

\* process_deduped_item: DRY_RUN_FORCE or effective_mode != "write" or not updates
SkipsWrite(mode, updates) ==
  DRY_RUN_FORCE \/ effective_mode(mode) # "write" \/ updates = EmptyDict

\* ------------------------------------------------------------------------
\* main.py: credentials
\* ------------------------------------------------------------------------

\* APP_AUTH_TOKEN; start-up raises when it is missing or empty
APP_AUTH_TOKEN == <<"k">>

WrongToken == <<"w">>
BearerScheme == <<"B", "e", "a", "r", "e", "r">>
BasicScheme == <<"B", "a", "s", "i", "c">>

\* the header value "<scheme> <token>"
Header(scheme, token) == scheme \o Space \o token

\* the position of the first " " of s, 0 when s has none
FirstSpace(s) ==
  IF \E n \in DOMAIN s : s[n] = " "
  THEN CHOOSE n \in DOMAIN s : s[n] = " " /\ \A m \in 1..(n - 1) : s[m] # " "
  ELSE 0

\* mutant: any bearer token is accepted
require_auth_AnyBearer(authorization) ==
  Truthy(authorization) /\ FirstSpace(authorization) # 0

\* require_auth: TRUE when it returns True, FALSE when it raises
\* HTTPException(403)
require_auth(authorization) ==
  IF ~Truthy(authorization) THEN FALSE
  ELSE LET n == FirstSpace(authorization)
       IN IF n = 0 THEN FALSE
          ELSE LET scheme == SubSeq(authorization, 1, n - 1)
                   token == SubSeq(authorization, n + 1, Len(authorization))
               IN ~(Lower(scheme) # Lower(BearerScheme) \/ token # APP_AUTH_TOKEN)

\* download_csv: token != APP_AUTH_TOKEN is refused
download_auth(token) == token = APP_AUTH_TOKEN

\* ------------------------------------------------------------------------
\* main.py: the answers of the upstream as safe_request hands them on
\* ------------------------------------------------------------------------

\* the status of the last answer safe_request received; every 4xx and 5xx
\* status takes the path of 404
UpstreamAnswers == {200, 404}

\* resp.raise_for_status() raises for every 4xx and 5xx status
RaisesForStatus(code) == code >= 400

\* ------------------------------------------------------------------------
\* main.py: the runners, one upstream request per step
\* ------------------------------------------------------------------------

Start(kind, form_id, mode) ==
  [IdleJob EXCEPT !.kind = kind, !.form = form_id, !.mode = mode]

\* the dependency require_auth raised: FastAPI answers 403 and the handler
\* body does not run
Refused(kind, credential) ==
  [IdleJob EXCEPT !.kind = kind, !.credential = credential, !.pc = "done",
                  !.response = [code |-> 403, status |-> "forbidden"]]

\* an exception left the handler: FastAPI answers 500
Failed(j) == [j EXCEPT !.pc = "done", !.response = [code |-> 500, status |-> "error"]]

Respond(j, code, status) ==
  [j EXCEPT !.pc = "done", !.response = [code |-> code, status |-> status]]

Sent(j, request, answer) ==
  [j EXCEPT !.requests = Append(@, [request EXCEPT !.answer = answer])]

\* the first index from i on of a submission that carries an e-mail
\* (process_submission_streaming returns at once on the others)
RECURSIVE NextWithEmail(_, _)
NextWithEmail(results, i) ==
  IF i > Len(results) THEN i
  ELSE IF Truthy(extract_submission_email_and_fields(results[i]).email) THEN i
  ELSE NextWithEmail(results, i + 1)

\* run_recovery_streaming: the next form of FORM_PROPERTY_MAP.keys(), or the end
NextForm(j, idx) ==
  IF idx <= Len(FORM_PROPERTY_MAP)
  THEN [j EXCEPT !.pc = "fetch", !.formIdx = idx, !.form = FORM_PROPERTY_MAP[idx].form,
                 !.after = NoToken, !.next_after = NoToken, !.results = << >>, !.i = 0]
  ELSE Respond([j EXCEPT !.results = << >>, !.i = 0, !.next_after = NoToken],
               200, "complete")

\* run_recovery_streaming: the submissions of the page from index i on
StreamFrom_LeavesPageEarly(j, i) ==
  LET n == IF i > 1 THEN Len(j.results) + 1 ELSE NextWithEmail(j.results, i)
  IN IF n <= Len(j.results)
     THEN LET x == extract_submission_email_and_fields(j.results[n])
          IN [j EXCEPT !.pc = "search", !.i = n, !.email = x.email, !.fields = x.fields]
     ELSE IF j.next_after = NoToken
     THEN NextForm(j, j.formIdx + 1)
     ELSE [j EXCEPT !.pc = "fetch", !.after = j.next_after, !.results = << >>, !.i = 0]

StreamFrom(j, i) ==
  LET n == NextWithEmail(j.results, i)
  IN IF n <= Len(j.results)
     THEN LET x == extract_submission_email_and_fields(j.results[n])
          IN [j EXCEPT !.pc = "search", !.i = n, !.email = x.email, !.fields = x.fields]
     ELSE IF j.next_after = NoToken
     THEN NextForm(j, j.formIdx + 1)
     ELSE [j EXCEPT !.pc = "fetch", !.after = j.next_after, !.results = << >>, !.i = 0]

StreamAfterPage(j, page) ==
  IF page.results = << >>
  THEN NextForm(j, j.formIdx + 1)
  ELSE StreamFrom([j EXCEPT !.results = page.results, !.next_after = page.after], 1)

\* mutant: the loop leaves before it keeps the results of a page that
\* carries no token
PrepareAfterPage_DropsLastPage(j, page) ==
  IF page.results = << >> \/ page.after = NoToken
  THEN Respond(j, 200, "prepared")
  ELSE [j EXCEPT !.all_results = j.all_results \o page.results, !.after = page.after]

\* fetch_all_submissions_for_form, then prepare_run's dedupe and response
PrepareAfterPage(j, page) ==
  LET all == j.all_results \o page.results
  IN IF page.results = << >> \/ page.after = NoToken
     THEN Respond([j EXCEPT !.all_results = all], 200, "prepared")
     ELSE [j EXCEPT !.all_results = all, !.after = page.after]

\* run_latest_for_email_live: the first submission of the page with the e-mail
MatchesEmail(submission, email_lower) ==
  LET sub_email == extract_submission_email_and_fields(submission).email
  IN Truthy(sub_email) /\ Lower(sub_email) = email_lower

EmailAfterPage_LastOfPage(j, page) ==
  LET hits == {n \in DOMAIN page.results : MatchesEmail(page.results[n], Lower(j.email))}
  IN IF page.results = << >>
     THEN Respond(j, 200, "no_submission_found")
     ELSE IF hits # {}
     THEN LET n == CHOOSE m \in hits : \A o \in hits : m >= o
          IN [j EXCEPT !.pc = "search",
                       !.fields = extract_submission_email_and_fields(page.results[n]).fields]
     ELSE IF page.after = NoToken
     THEN Respond(j, 200, "no_submission_found")
     ELSE [j EXCEPT !.after = page.after]

EmailAfterPage(j, page) ==
  LET hits == {n \in DOMAIN page.results : MatchesEmail(page.results[n], Lower(j.email))}
  IN IF page.results = << >>
     THEN Respond(j, 200, "no_submission_found")
     ELSE IF hits # {}
     THEN LET n == CHOOSE m \in hits : \A o \in hits : m <= o
          IN [j EXCEPT !.pc = "search",
                       !.fields = extract_submission_email_and_fields(page.results[n]).fields]
     ELSE IF page.after = NoToken
     THEN Respond(j, 200, "no_submission_found")
     ELSE [j EXCEPT !.after = page.after]

\* mutant: the caller is sent past the first item of the next slice
NextOffset_SkipsOne(end, total) == IF end < total THEN end + 1 ELSE NoOffset

\* next_offset = end if end < total else None
NextOffset(end, total) == IF end < total THEN end ELSE NoOffset

\* mutant: a record left unwritten in write mode counts as updated
\* remaining = max(total - end, 0)
Remaining_FromOffset(total, end) == IF total - end > 0 THEN total - end + 1 ELSE 0

Remaining(total, end) == IF total - end > 0 THEN total - end ELSE 0

BatchAfterItem_CountsDryRun(j, status) ==
  LET j1 == [j EXCEPT !.processed_count = @ + 1,
                      !.updated_count = IF status \in {"updated", "dry_run"} THEN @ + 1 ELSE @,
                      !.not_found_count = IF status = "contact_not_found" THEN @ + 1 ELSE @,
                      !.contact_id = "", !.updates = EmptyDict]
  IN IF j.i < Len(j.batch)
     THEN [j1 EXCEPT !.pc = "search", !.i = j.i + 1,
                     !.email = j.batch[j.i + 1].email,
                     !.fields = j.batch[j.i + 1].submission_fields]
     ELSE Respond([j1 EXCEPT !.next_offset = NextOffset(j.end, j.total)], 200, "complete")

\* run_batch_for_form: the loop after process_deduped_item returned
BatchAfterItem(j, status) ==
  LET j1 == [j EXCEPT !.processed_count = @ + 1,
                      !.updated_count = IF status = "updated" THEN @ + 1 ELSE @,
                      !.not_found_count = IF status = "contact_not_found" THEN @ + 1 ELSE @,
                      !.contact_id = "", !.updates = EmptyDict]
  IN IF j.i < Len(j.batch)
     THEN [j1 EXCEPT !.pc = "search", !.i = j.i + 1,
                     !.email = j.batch[j.i + 1].email,
                     !.fields = j.batch[j.i + 1].submission_fields]
     ELSE Respond([j1 EXCEPT !.next_offset = NextOffset(j.end, j.total),
                             !.remaining = Remaining(j.total, j.end)], 200, "complete")

\* the caller's code after process_deduped_item returned with a status
AfterItem(j, status) ==
  CASE j.kind = "batch" -> BatchAfterItem(j, status)
    [] j.kind = "email" ->
         Respond([j EXCEPT !.contact_id = "", !.updates = EmptyDict], 200, "complete")
    [] j.kind = "run_all" ->
         StreamFrom([j EXCEPT !.contact_id = "", !.updates = EmptyDict], j.i + 1)

\* the mode process_deduped_item is called with
ItemMode(j) == IF j.kind = "run_all" THEN effective_mode(j.mode) ELSE j.mode

Modes == {"smoke", "write", "bogus"}

\* the answer of /kill, /unkill or /status to a caller
Answered(endpoint, authorization, code, status) ==
  [endpoint |-> endpoint, credential |-> authorization, code |-> code, status |-> status]

\* POST /kill and POST /unkill
Kill(authorization) ==
  /\ IF require_auth(authorization)
     THEN /\ KILLED' = TRUE
          /\ control' = Answered("kill", authorization, 200, "killed")
     ELSE /\ UNCHANGED KILLED
          /\ control' = Answered("kill", authorization, 403, "forbidden")
  /\ UNCHANGED <<DRY_RUN_FORCE, prepared, csv, job, upstreamVars, notMain>>

Unkill(authorization) ==
  /\ IF require_auth(authorization)
     THEN /\ KILLED' = FALSE
          /\ control' = Answered("unkill", authorization, 200, "alive")
     ELSE /\ UNCHANGED KILLED
          /\ control' = Answered("unkill", authorization, 403, "forbidden")
  /\ UNCHANGED <<DRY_RUN_FORCE, prepared, csv, job, upstreamVars, notMain>>

\* GET /status
Status(authorization) ==
  /\ control' = IF require_auth(authorization)
                THEN Answered("status", authorization, 200,
                              IF KILLED THEN "killed" ELSE "alive")
                ELSE Answered("status", authorization, 403, "forbidden")
  /\ UNCHANGED <<KILLED, DRY_RUN_FORCE, prepared, csv, job, upstreamVars, notMain>>

\* GET /health, the one endpoint without a credential
Health ==
  /\ job.pc = "idle"
  /\ job' = Respond(Start("health", "", ""), 200, "ok")
  /\ UNCHANGED <<KILLED, DRY_RUN_FORCE, control, prepared, csv, upstreamVars, notMain>>

\* GET /download/{form_id}.csv?token=
DownloadCsv(form_id, token) ==
  /\ job.pc = "idle"
  /\ job' = IF ~download_auth(token) THEN Refused("download", token)
            ELSE LET j == [Start("download", form_id, "") EXCEPT !.credential = token]
                 IN IF form_id \in DOMAIN csv /\ csv[form_id].exists
                    THEN Respond(j, 200, "file")
                    ELSE Respond(j, 404, "no_csv")
  /\ UNCHANGED <<KILLED, DRY_RUN_FORCE, control, prepared, csv, upstreamVars, notMain>>

\* mutant: the handler without its kill check
PrepareRun_IgnoresKill(authorization, form_id) ==
  /\ job.pc = "idle"
  /\ LET j == [Start("prepare", form_id, "") EXCEPT !.credential = authorization]
     IN job' = IF ~require_auth(authorization) THEN Refused("prepare", authorization)
               ELSE IF form_id \notin ConfiguredForms(FORM_PROPERTY_MAP)
               THEN Respond(j, 404, "form_not_found")
               ELSE [j EXCEPT !.pc = "fetch"]
  /\ UNCHANGED <<KILLED, DRY_RUN_FORCE, control, prepared, csv, upstreamVars, notMain>>

\* POST /prepare-run/{form_id}
PrepareRun(authorization, form_id) ==
  /\ job.pc = "idle"
  /\ LET j == [Start("prepare", form_id, "") EXCEPT !.credential = authorization]
     IN job' = IF ~require_auth(authorization) THEN Refused("prepare", authorization)
               ELSE IF KILLED THEN Respond(j, 403, "blocked")
               ELSE IF form_id \notin ConfiguredForms(FORM_PROPERTY_MAP)
               THEN Respond(j, 404, "form_not_found")
               ELSE [j EXCEPT !.pc = "fetch"]
  /\ UNCHANGED <<KILLED, DRY_RUN_FORCE, control, prepared, csv, upstreamVars, notMain>>

\* POST /run-form/{form_id}/batch and run_batch_for_form up to its loop
RunFormBatch(authorization, form_id, mode, offset, limit) ==
  /\ job.pc = "idle"
  /\ LET j == [Start("batch", form_id, mode) EXCEPT !.credential = authorization]
         items == prepared[form_id].content
         total == Len(items)
         off == IF offset < 0 THEN 0 ELSE offset
         lim == IF limit <= 0 THEN 100 ELSE limit
         end == IF off + lim < total THEN off + lim ELSE total
         batch == SubSeq(items, off + 1, end)
     IN job' =
          IF ~require_auth(authorization) THEN Refused("batch", authorization)
          ELSE IF KILLED THEN Respond(j, 403, "blocked")
          ELSE IF form_id \notin ConfiguredForms(FORM_PROPERTY_MAP)
          THEN Respond(j, 404, "form_not_found")
          ELSE IF mode \notin {"smoke", "write"} THEN Respond(j, 400, "invalid_mode")
          ELSE IF ~prepared[form_id].exists THEN Respond(j, 404, "no_prepared_data")
          ELSE IF off >= total
          THEN Respond([j EXCEPT !.offset = off, !.total = total], 200, "complete")
          ELSE [j EXCEPT !.pc = "search", !.offset = off, !.end = end, !.total = total,
                         !.batch = batch, !.i = 1,
                         !.email = batch[1].email,
                         !.fields = batch[1].submission_fields]
  /\ UNCHANGED <<KILLED, DRY_RUN_FORCE, control, prepared, csv, upstreamVars, notMain>>

\* POST /run-form/{form_id}/email/{email}
RunFormForEmail(authorization, form_id, email, mode) ==
  /\ job.pc = "idle"
  /\ LET j == [Start("email", form_id, mode) EXCEPT !.email = email,
                                                      !.credential = authorization]
     IN job' =
          IF ~require_auth(authorization) THEN Refused("email", authorization)
          ELSE IF KILLED THEN Respond(j, 403, "blocked")
          ELSE IF form_id \notin ConfiguredForms(FORM_PROPERTY_MAP)
          THEN Respond(j, 404, "form_not_found")
          ELSE IF mode \notin {"smoke", "write"} THEN Respond(j, 400, "invalid_mode")
          ELSE [j EXCEPT !.pc = "fetch"]
  /\ UNCHANGED <<KILLED, DRY_RUN_FORCE, control, prepared, csv, upstreamVars, notMain>>

\* POST /run-all
RunAll(authorization, mode) ==
  /\ job.pc = "idle"
  /\ LET j == [Start("run_all", "", mode) EXCEPT !.credential = authorization]
     IN job' =
          IF ~require_auth(authorization) THEN Refused("run_all", authorization)
          ELSE IF KILLED THEN Respond(j, 403, "blocked")
          ELSE IF mode \notin {"smoke", "write"} THEN Respond(j, 400, "invalid_mode")
          ELSE NextForm(j, 1)
  /\ UNCHANGED <<KILLED, DRY_RUN_FORCE, control, prepared, csv, upstreamVars, notMain>>

\* one page fetch of the running request (fetch_all_submissions_for_form,
\* run_latest_for_email_live, run_recovery_streaming) and the code up to the
\* next upstream request; prepare_run ends by saving the snapshot and the CSV.
\* An answer that makes safe_request raise leaves the handler as an exception.
FetchPageAnswered(answer, tail) ==
  /\ job.pc = "fetch"
  /\ LET page == fetch_form_submissions(job.form, job.after, tail)
         j == Sent(job, GetRequest(job.form, job.after), answer)
     IN job' = IF RaisesForStatus(answer) THEN Failed(j)
               ELSE CASE job.kind = "prepare" -> PrepareAfterPage(j, page)
                      [] job.kind = "email" -> EmailAfterPage(j, page)
                      [] job.kind = "run_all" -> StreamAfterPage(j, page)
  /\ IF job.kind = "prepare" /\ job'.pc = "done" /\ job'.response.code = 200
     THEN LET deduped == dedupe_submissions_newest_first(job'.all_results)
          IN /\ prepared' = [prepared EXCEPT ![job.form] = File(deduped)]
             /\ csv' = [csv EXCEPT ![job.form] =
                          File([n \in DOMAIN deduped |->
                                  ApplyProperties([email |-> deduped[n].email],
                                                  deduped[n].submission_fields)])]
     ELSE UNCHANGED <<prepared, csv>>
  /\ UNCHANGED <<KILLED, DRY_RUN_FORCE, control, upstreamVars, notMain>>

FetchPage == \E answer \in UpstreamAnswers, tail \in BOOLEAN : FetchPageAnswered(answer, tail)

\* process_deduped_item up to its PATCH: the contact search and the plan
Search ==
  /\ job.pc = "search"
  /\ \E answer \in UpstreamAnswers :
       LET found == get_contact_by_email(job.email)
           j == Sent(job, SearchRequest(job.email), answer)
       IN IF RaisesForStatus(answer)
          THEN job' = Failed(j)
          ELSE IF found = << >>
          THEN job' = AfterItem(j, "contact_not_found")
          ELSE LET contact == found[1]
                   updates == compute_updates_for_submission(
                                FORM_PROPERTY_MAP, job.form, job.fields, contact)
               IN IF SkipsWrite(ItemMode(job), updates)
                  THEN job' = AfterItem(j, IF effective_mode(ItemMode(job)) = "write"
                                           THEN "dry_run"
                                           ELSE effective_mode(ItemMode(job)))
                  ELSE job' = [j EXCEPT !.pc = "patch", !.contact_id = contact.id,
                                        !.updates = updates]
  /\ UNCHANGED <<KILLED, DRY_RUN_FORCE, control, prepared, csv, upstreamVars, notMain>>

\* process_deduped_item: update_contact(contact_id, updates)
Patch ==
  /\ job.pc = "patch"
  /\ \E answer \in UpstreamAnswers :
       LET j == Sent(job, PatchRequest(job.contact_id, job.updates), answer)
       IN IF RaisesForStatus(answer)
          THEN /\ job' = Failed(j)
               /\ UNCHANGED crm
          ELSE /\ crm' = [crm EXCEPT ![job.contact_id] = ApplyProperties(@, job.updates)]
               /\ job' = AfterItem(j, "updated")
  /\ UNCHANGED <<KILLED, DRY_RUN_FORCE, control, served, prepared, csv, notMain>>

\* the handler returns its response
Return ==
  /\ job.pc = "done"
  /\ job' = IdleJob
  /\ UNCHANGED <<KILLED, DRY_RUN_FORCE, control, prepared, csv, upstreamVars, notMain>>

\* ------------------------------------------------------------------------
\* main.py: the service against an upstream
\* ------------------------------------------------------------------------

MaxServed == 2

MainSamples ==
  { Submission(<< Value("email", Jane), Value("opt_in", Checked),
                  Value("terms", Checked) >>, 2, 0),
    Submission(<< Value("email", JaneUpper), Value("opt_in", NotChecked) >>, 1, 0),
    Submission(<< Value("opt_in", Checked) >>, 1, 0) }

ServedLists(n) == UNION {[1..m -> MainSamples] : m \in 0..n}

\* the forms' submissions, MaxServed in all
ServedChoices ==
  {[f1 |-> a, f2 |-> b] : a \in ServedLists(MaxServed), b \in ServedLists(MaxServed)}

\* one contact, Jane, with a non-empty and an empty mapped property
CrmAtStart ==
  [c42 |-> [email |-> Jane, marketing_opt_in |-> NotChecked, terms_accepted |-> None]]

\* the header of a caller that holds the token
GoodHeader == Header(BearerScheme, APP_AUTH_TOKEN)

RequestForms == {"f1", "f2", "zz"}
RequestEmails == {Jane, JaneUpper}
BatchOffsets == {-1, 0, 1}
BatchLimits == {0, 1}

InitMain ==
  /\ FORM_PROPERTY_MAP = MapTwoForms
  /\ CallIdle
  /\ PlannerIdle
  /\ DedupeIdle
  /\ KILLED = FALSE
  /\ DRY_RUN_FORCE \in BOOLEAN
  /\ served \in {sv \in ServedChoices : Len(sv.f1) + Len(sv.f2) <= MaxServed}
  /\ crm = CrmAtStart
  /\ prepared = [f \in RequestForms |-> NoFile]
  /\ csv = [f \in RequestForms |-> NoFile]
  /\ job = IdleJob
  /\ control = NoControl
  /\ client = ClientOff
  /\ AppIdle

\* the requests of callers that hold the token
NextMain ==
  \/ Kill(GoodHeader) /\ UNCHANGED client
  \/ Unkill(GoodHeader) /\ UNCHANGED client
  \/ \E f \in RequestForms : PrepareRun(GoodHeader, f) /\ UNCHANGED client
  \/ \E f \in RequestForms, m \in Modes, o \in BatchOffsets, l \in BatchLimits :
       RunFormBatch(GoodHeader, f, m, o, l) /\ UNCHANGED client
  \/ \E f \in RequestForms, e \in RequestEmails, m \in Modes :
       RunFormForEmail(GoodHeader, f, e, m) /\ UNCHANGED client
  \/ \E m \in Modes : RunAll(GoodHeader, m) /\ UNCHANGED client
  \/ FetchPage /\ UNCHANGED client
  \/ Search /\ UNCHANGED client
  \/ Patch /\ UNCHANGED client
  \/ Return /\ UNCHANGED client

SpecMain == InitMain /\ [][NextMain]_vars

\* the request the step has just sent, if it sent one
SentNow == Len(job'.requests) = Len(job.requests) + 1
LastSent == job'.requests[Len(job'.requests)]

(* C2: when the requested mode is "smoke" or DRY_RUN_FORCE is true, no PATCH
   is issued by the batch, single-email or run-all paths, whatever the
   plan: the requests of such a request never hold a PATCH. *)
C2_SmokeNeverPatches ==
  (job.mode = "smoke" \/ DRY_RUN_FORCE) =>
    /\ job.pc # "patch"
    /\ \A n \in DOMAIN job.requests : job.requests[n].method # "PATCH"

\* a write-mode run under DRY_RUN_FORCE that found the contact and computed
\* a non-empty plan, and ended without a PATCH
C2_Witness ==
  /\ DRY_RUN_FORCE
  /\ job.mode = "write"
  /\ job.kind = "email"
  /\ job.pc = "done"
  /\ job.response.status = "complete"
  /\ get_contact_by_email(job.email) # << >>
  /\ compute_updates_for_submission(FORM_PROPERTY_MAP, job.form, job.fields,
                                    get_contact_by_email(job.email)[1]) # EmptyDict
  /\ job.requests[Len(job.requests)].method = "POST"

(* C3: over any sequence of write-mode runs, no PATCH carries a property
   whose value stored in the CRM at that moment is non-empty (None, "" and
   " " count as empty). *)
C3_PatchNeverCarriesSetProperty ==
  [][ (SentNow /\ LastSent.method = "PATCH") =>
        \A p \in DOMAIN LastSent.properties : crm[LastSent.id][p] \in Blank ]_vars

(* C5: once the kill flag is set while a job loop is running, the loop
   fetches no further page and starts no further submission, and the job
   does not report "complete" (or "prepared"). *)
C5_KillStopsTheLoop ==
  [][ (KILLED /\ job.pc \in {"fetch", "search"}) =>
        /\ ~(SentNow /\ LastSent.method \in {"GET", "POST"})
        /\ job'.pc = "done" => job'.response.status \notin {"complete", "prepared"} ]_vars

(* C6: against an upstream that serves a finite sequence of non-empty pages,
   followed by an empty page or ending with a page without token,
   fetch_all_submissions_for_form terminates (it sends at most one request
   more than there are pages, each step sending one) and returns every
   served submission exactly once, in served order. *)
C6_FetchAllReturnsEverySubmissionOnce ==
  job.kind = "prepare" /\ job.pc \in {"fetch", "done"} /\ job.response.code \in {0, 200} =>
    LET pages == Paginate(served[job.form])
    IN /\ Len(job.requests) <= Len(pages) + 1
       /\ job.pc = "fetch" => /\ Len(job.requests) <= Len(pages)
                              /\ job.all_results = SubSeq(served[job.form], 1, Len(job.all_results))
       /\ job.pc = "done" => job.all_results = served[job.form]

\* two pages and then an empty page: three requests, both submissions
C6_Witness ==
  /\ job.kind = "prepare"
  /\ job.pc = "done"
  /\ job.response.status = "prepared"
  /\ Len(Paginate(served[job.form])) = 2
  /\ Len(job.requests) = 3
  /\ job.all_results = served[job.form]

\* ------------------------------------------------------------------------
\* main.py: callers with and without the credential, every endpoint
\* ------------------------------------------------------------------------

\* Authorization headers: none, empty, the token under "Bearer" and under
\* "bearer", a wrong token, another scheme, and values without a space
AuthHeaders ==
  {None, EmptyStr, GoodHeader, Header(Lower(BearerScheme), APP_AUTH_TOKEN),
   Header(BearerScheme, WrongToken), Header(BasicScheme, APP_AUTH_TOKEN),
   BearerScheme, APP_AUTH_TOKEN}

\* ?token= of the CSV download: absent, empty, the token, others
DownloadTokens == {None, EmptyStr, APP_AUTH_TOKEN, WrongToken, GoodHeader}

InitAuth ==
  /\ FORM_PROPERTY_MAP = MapTwoForms
  /\ CallIdle
  /\ PlannerIdle
  /\ DedupeIdle
  /\ KILLED = FALSE
  /\ DRY_RUN_FORCE = FALSE
  /\ served \in {sv \in ServedChoices : Len(sv.f1) = 1 /\ Len(sv.f2) = 0}
  /\ crm = CrmAtStart
  /\ prepared = [f \in RequestForms |-> NoFile]
  /\ csv = [f \in RequestForms |-> NoFile]
  /\ job = IdleJob
  /\ control = NoControl
  /\ client = ClientOff
  /\ AppIdle

NextAuth ==
  \/ \E a \in AuthHeaders : Kill(a) /\ UNCHANGED client
  \/ \E a \in AuthHeaders : Unkill(a) /\ UNCHANGED client
  \/ \E a \in AuthHeaders : Status(a) /\ UNCHANGED client
  \/ Health /\ UNCHANGED client
  \/ \E t \in DownloadTokens : DownloadCsv("f1", t) /\ UNCHANGED client
  \/ \E a \in AuthHeaders : PrepareRun(a, "f1") /\ UNCHANGED client
  \/ \E a \in AuthHeaders : RunFormBatch(a, "f1", "write", 0, 1) /\ UNCHANGED client
  \/ \E a \in AuthHeaders : RunFormForEmail(a, "f1", Jane, "write") /\ UNCHANGED client
  \/ \E a \in AuthHeaders : RunAll(a, "write") /\ UNCHANGED client
  \/ FetchPage /\ UNCHANGED client
  \/ Search /\ UNCHANGED client
  \/ Patch /\ UNCHANGED client
  \/ Return /\ UNCHANGED client

SpecAuth == InitAuth /\ [][NextAuth]_vars

\* the correct credential of an endpoint: ?token=APP_AUTH_TOKEN for the CSV
\* download, "Bearer APP_AUTH_TOKEN" for the others, the scheme in any case
C15_Correct(kind, credential) ==
  IF kind = "download"
  THEN credential = APP_AUTH_TOKEN
  ELSE credential \in {Header(BearerScheme, APP_AUTH_TOKEN),
                       Header(Lower(BearerScheme), APP_AUTH_TOKEN)}

(* C15: every endpoint of main.py except /health answers a request that
   lacks the correct credential with 403 and does nothing else: the step
   that receives it sends no upstream request, writes no snapshot and no
   CSV, changes no contact and leaves the kill flag as it is, and the
   request never gets past the refusal. *)
C15_RefusedBeforeAnyWork ==
  [][ /\ (job' # job /\ job'.kind \notin {"none", "health"}
            /\ ~C15_Correct(job'.kind, job'.credential)) =>
           /\ job'.pc = "done"
           /\ job'.response.code = 403
           /\ job'.requests = << >>
           /\ UNCHANGED <<KILLED, prepared, csv, crm>>
      /\ (control'.endpoint # "" /\ ~C15_Correct(control'.endpoint, control'.credential)
            /\ UNCHANGED job) =>
           /\ control'.code = 403
           /\ UNCHANGED <<KILLED, prepared, csv, crm>> ]_vars

\* a batch request with a wrong bearer token, refused while a snapshot is
\* prepared and the kill flag is off
C15_Witness ==
  /\ job.kind = "batch"
  /\ job.credential = Header(BearerScheme, WrongToken)
  /\ job.pc = "done"
  /\ job.response.code = 403
  /\ prepared["f1"].exists
  /\ ~KILLED
  /\ control = Answered("kill", Header(BasicScheme, APP_AUTH_TOKEN), 403, "forbidden")

(* C14: when the submissions endpoint answers a page request with 404 or
   400, the fetch yields an empty page and the run goes on as it does after
   an empty page: the request does not fail. *)
C14_MissingFormIsAnEmptyPage ==
  [][ (SentNow /\ LastSent.method = "GET" /\ LastSent.answer \in {400, 404}) =>
        LET empty == [results |-> << >>, after |-> NoToken]
            j == Sent(job, GetRequest(job.form, job.after), LastSent.answer)
        IN /\ job'.response.status # "error"
           /\ job' = CASE job.kind = "prepare" -> PrepareAfterPage(j, empty)
                       [] job.kind = "email" -> EmailAfterPage(j, empty)
                       [] job.kind = "run_all" -> StreamAfterPage(j, empty) ]_vars

\* ------------------------------------------------------------------------
\* main.py: the kill switch in front of the run endpoints
\* ------------------------------------------------------------------------

\* the callers of /kill, /unkill and the run endpoints: one that holds the
\* token and one that does not
KillCallers == {GoodHeader, Header(BearerScheme, WrongToken)}

KillForms == {"f1", "zz"}

InitKill ==
  /\ FORM_PROPERTY_MAP = MapTwoForms
  /\ CallIdle
  /\ PlannerIdle
  /\ DedupeIdle
  /\ KILLED = FALSE
  /\ DRY_RUN_FORCE = FALSE
  /\ served \in {sv \in ServedChoices : Len(sv.f1) = MaxServed - 1 /\ Len(sv.f2) = 0}
  /\ crm = CrmAtStart
  /\ prepared = [f \in RequestForms |-> NoFile]
  /\ csv = [f \in RequestForms |-> NoFile]
  /\ job = IdleJob
  /\ control = NoControl
  /\ client = ClientOff
  /\ AppIdle

NextKill ==
  \/ \E a \in KillCallers : Kill(a) /\ UNCHANGED client
  \/ \E a \in KillCallers : Unkill(a) /\ UNCHANGED client
  \/ \E a \in KillCallers : Status(a) /\ UNCHANGED client
  \/ \E a \in KillCallers, f \in KillForms : PrepareRun(a, f) /\ UNCHANGED client
  \/ \E a \in KillCallers, f \in KillForms, m \in Modes, o \in BatchOffsets, l \in BatchLimits :
       RunFormBatch(a, f, m, o, l) /\ UNCHANGED client
  \/ \E a \in KillCallers, f \in KillForms, e \in RequestEmails, m \in Modes :
       RunFormForEmail(a, f, e, m) /\ UNCHANGED client
  \/ \E a \in KillCallers, m \in Modes : RunAll(a, m) /\ UNCHANGED client
  \/ FetchPage /\ UNCHANGED client
  \/ Search /\ UNCHANGED client
  \/ Patch /\ UNCHANGED client
  \/ Return /\ UNCHANGED client

SpecKill == InitKill /\ [][NextKill]_vars

C31_RunKinds == {"prepare", "batch", "email", "run_all"}

\* the step receives a request of a run endpoint
C31_Received == job.pc = "idle" /\ job'.pc # "idle" /\ job'.kind \in C31_RunKinds

\* the request passed the kill check and every validation of its endpoint:
\* it answers 200 at once or stands before its first upstream request
C31_Runs ==
  \/ job'.pc \in {"fetch", "search"}
  \/ job'.pc = "done" /\ job'.response.code = 200

\* the parameters of the request are valid for its endpoint
C31_Valid ==
  /\ job'.kind # "run_all" => job'.form \in ConfiguredForms(FORM_PROPERTY_MAP)
  /\ job'.kind # "prepare" => job'.mode \in {"smoke", "write"}
  /\ job'.kind = "batch" => prepared[job'.form].exists

(* C31: while the kill flag is set, every run endpoint of main.py
   (/prepare-run, /run-form/../batch, /run-form/../email, /run-all) answers
   403 without sending an upstream request, writing a snapshot or a CSV, or
   changing a contact, and the request never gets further; the flag changes
   only in a step of /kill, which sets it, or of /unkill, which clears it,
   made by a caller that holds the credential; and with the flag cleared,
   after /unkill too, a valid request of the same endpoints runs. *)
C31_KillFlagGatesTheRunEndpoints ==
  /\ [](job.kind \in C31_RunKinds /\ job.response.code = 403 =>
          job.pc = "done" /\ job.requests = << >>)
  /\ [][ /\ (C31_Received /\ KILLED) =>
              /\ job'.pc = "done"
              /\ job'.response.code = 403
              /\ job'.requests = << >>
              /\ UNCHANGED <<KILLED, prepared, csv, crm>>
         /\ KILLED' # KILLED =>
              /\ control'.endpoint \in {"kill", "unkill"}
              /\ control'.code = 200
              /\ require_auth(control'.credential)
              /\ UNCHANGED job
         /\ (control' # control /\ control'.code = 200 /\ control'.endpoint = "kill") =>
              KILLED'
         /\ (control' # control /\ control'.code = 200 /\ control'.endpoint = "unkill") =>
              ~KILLED'
         /\ (C31_Received /\ ~KILLED /\ require_auth(job'.credential)) =>
              /\ job'.response.status # "blocked"
              /\ C31_Valid => C31_Runs ]_vars

\* a batch request of a caller that holds the token, answered 403 while the
\* flag is set and the snapshot of an earlier run is on disk
C31_Witness ==
  /\ KILLED
  /\ control = Answered("kill", GoodHeader, 200, "killed")
  /\ job.kind = "batch"
  /\ job.form = "f1"
  /\ job.mode = "write"
  /\ job.credential = GoodHeader
  /\ job.pc = "done"
  /\ job.response = [code |-> 403, status |-> "blocked"]
  /\ prepared["f1"].exists

\* the flag cleared by /unkill, and a run-all request that has sent requests
C31_WitnessUnkill ==
  /\ ~KILLED
  /\ control = Answered("unkill", GoodHeader, 200, "alive")
  /\ job.kind = "run_all"
  /\ Len(job.requests) >= 2

\* ------------------------------------------------------------------------
\* main.py: a caller that runs a prepared snapshot in slices, from offset 0
\* on and then from each returned next_offset
\* ------------------------------------------------------------------------

MaxItems == 3
MaxLimit == 2

Ann == <<"a", "@", "x">>
Cat == <<"c", "@", "x">>

SnapshotEmails == {Jane, Bob, Ann, Cat}

\* one row of a prepared snapshot, as dedupe_submissions_newest_first builds
\* it; Bob's submission carries no mapped field
Item(email) ==
  [email |-> email,
   submission_fields |-> IF email = Bob THEN [email |-> email]
                         ELSE [email |-> email, opt_in |-> Checked]]

\* the contacts of Jane, Bob and Ann; Cat has none
BatchCrmAtStart ==
  [c42 |-> [email |-> Jane, marketing_opt_in |-> NotChecked, terms_accepted |-> None],
   c43 |-> [email |-> Bob, marketing_opt_in |-> None, terms_accepted |-> None],
   c44 |-> [email |-> Ann, marketing_opt_in |-> EmptyStr, terms_accepted |-> None]]

\* the snapshots prepare_run can save: at most one row per e-mail
Snapshots ==
  {[n \in DOMAIN l |-> Item(l[n])] :
     l \in {q \in UNION {[1..n -> SnapshotEmails] : n \in 0..MaxItems} :
              \A a, b \in DOMAIN q : q[a] = q[b] => a = b}}

InitBatch ==
  /\ FORM_PROPERTY_MAP = MapTwoForms
  /\ CallIdle
  /\ PlannerIdle
  /\ DedupeIdle
  /\ KILLED = FALSE
  /\ DRY_RUN_FORCE = FALSE
  /\ served = [f1 |-> << >>, f2 |-> << >>]
  /\ crm = BatchCrmAtStart
  /\ \E items \in Snapshots :
       prepared = [f \in RequestForms |-> IF f = "f1" THEN File(items) ELSE NoFile]
  /\ csv = [f \in RequestForms |-> NoFile]
  /\ job = IdleJob
  /\ control = NoControl
  /\ \E l \in 1..MaxLimit :
       client = [ClientOff EXCEPT !.pc = "ready", !.form = "f1", !.limit = l]
  /\ AppIdle

\* the caller posts the next slice
ClientCall ==
  /\ client.pc = "ready"
  /\ \E m \in {"smoke", "write"} :
       RunFormBatch(GoodHeader, client.form, m, client.offset, client.limit)
  /\ client' = [client EXCEPT !.pc = "waiting", !.calls = @ + 1]

\* process_deduped_item is called for the row job.i of the slice
ClientSearch ==
  /\ Search
  /\ client' = [client EXCEPT !.processed = Append(@, job.email)]

ClientPatch ==
  /\ Patch
  /\ UNCHANGED client

\* the caller reads the summary: it goes on at next_offset, ends on None,
\* and gives up on an error
ClientReturn ==
  /\ Return
  /\ client' = IF job.response.code # 200 THEN [client EXCEPT !.pc = "failed"]
               ELSE IF job.next_offset = NoOffset THEN [client EXCEPT !.pc = "ended"]
               ELSE [client EXCEPT !.pc = "ready", !.offset = job.next_offset]

NextBatch == ClientCall \/ ClientSearch \/ ClientPatch \/ ClientReturn

SpecBatch == InitBatch /\ [][NextBatch]_vars

\* ------------------------------------------------------------------------
\* POST /run-all and POST /run-form/f1/email against an upstream whose pages
\* hold several submissions
\* ------------------------------------------------------------------------

InitStream ==
  /\ FORM_PROPERTY_MAP = MapTwoForms
  /\ CallIdle
  /\ PlannerIdle
  /\ DedupeIdle
  /\ KILLED = FALSE
  /\ DRY_RUN_FORCE = FALSE
  /\ served \in {[f1 |-> a, f2 |-> b, page_size |-> PageSize + 1] :
                   a \in ServedLists(MaxServed + 1), b \in ServedLists(1)}
  /\ crm = CrmAtStart
  /\ prepared = [f \in RequestForms |-> NoFile]
  /\ csv = [f \in RequestForms |-> NoFile]
  /\ job = IdleJob
  /\ control = NoControl
  /\ client = ClientOff
  /\ AppIdle

NextStream ==
  \/ \E m \in {"smoke", "write"} : RunAll(GoodHeader, m) /\ UNCHANGED client
  \/ \E e \in RequestEmails \cup {Bob}, m \in {"smoke", "write"} :
       RunFormForEmail(GoodHeader, "f1", e, m) /\ UNCHANGED client
  \/ FetchPage /\ UNCHANGED client
  \/ Search /\ UNCHANGED client
  \/ Patch /\ UNCHANGED client
  \/ Return /\ UNCHANGED client

SpecStream == InitStream /\ [][NextStream]_vars

\* the e-mails of the submissions of a page that carry one, in list order
RECURSIVE C26_Emails(_)
C26_Emails(results) ==
  IF results = << >> THEN << >>
  ELSE LET x == extract_submission_email_and_fields(Head(results))
       IN (IF Truthy(x.email) THEN << x.email >> ELSE << >>) \o C26_Emails(Tail(results))

C26_Page(form_id, after) ==
  LET pages == PaginateBy(served[form_id], UpstreamPageSize)
      k == IF after # NoToken THEN after ELSE 1
  IN IF k <= Len(pages) THEN pages[k] ELSE << >>

\* the e-mails searched from request k of the run on, up to its next page fetch
RECURSIVE C26_Searched(_, _)
C26_Searched(requests, k) ==
  IF k > Len(requests) \/ requests[k].method = "GET" THEN << >>
  ELSE (IF requests[k].method = "POST" THEN << requests[k].email >> ELSE << >>)
         \o C26_Searched(requests, k + 1)

\* the index of the first page fetch from request k on, 0 when there is none
RECURSIVE C26_NextFetch(_, _)
C26_NextFetch(requests, k) ==
  IF k > Len(requests) THEN 0
  ELSE IF requests[k].method = "GET" THEN k
  ELSE C26_NextFetch(requests, k + 1)

C26_IsPrefix(a, b) == Len(a) <= Len(b) /\ a = SubSeq(b, 1, Len(a))

(* C26: within one run of /run-all the submissions are processed in page
   order, one at a time: the run begins with a page fetch; the searches
   after a page fetch are those of the page's submissions, in list order,
   and all of them have been made when the next page is fetched; every PATCH
   directly follows the search of its contact; and every request of the run
   was answered before the next one was sent (a request that raised is the
   last of the run). *)
C26_PageOrderOneAtATime ==
  job.kind = "run_all" =>
    LET requests == job.requests
    IN /\ requests # << >> => requests[1].method = "GET"
       /\ \A k \in DOMAIN requests :
            /\ requests[k].answer # 0
            /\ RaisesForStatus(requests[k].answer) => k = Len(requests) /\ job.pc = "done"
            /\ requests[k].method = "PATCH" =>
                 /\ k > 1
                 /\ requests[k - 1].method = "POST"
                 /\ get_contact_by_email(requests[k - 1].email) # << >>
                 /\ requests[k].id = get_contact_by_email(requests[k - 1].email)[1].id
            /\ requests[k].method = "GET" =>
                 LET all == C26_Emails(C26_Page(requests[k].form, requests[k].after))
                     searched == C26_Searched(requests, k + 1)
                     n == C26_NextFetch(requests, k + 1)
                 IN /\ C26_IsPrefix(searched, all)
                    /\ RaisesForStatus(requests[k].answer) => searched = << >>
                    /\ n # 0 => searched = all
                    /\ job.pc = "done" /\ job.response.code = 200 => searched = all
                    /\ job.pc = "search" /\ n = 0 =>
                         /\ Len(searched) < Len(all)
                         /\ job.email = all[Len(searched) + 1]
                    /\ job.pc = "patch" /\ n = 0 =>
                         /\ searched # << >>
                         /\ job.email = searched[Len(searched)]

\* a page of two submissions was processed, the first with a PATCH, before
\* the second page was fetched
C26_Witness ==
  /\ job.kind = "run_all"
  /\ Len(job.requests) >= 5
  /\ job.requests[1].method = "GET"
  /\ job.requests[2].method = "POST"
  /\ job.requests[3].method = "PATCH"
  /\ job.requests[4].method = "POST"
  /\ job.requests[5].method = "GET"
  /\ job.requests[5].form = "f1"
  /\ job.requests[5].after = 2

\* the indices, in fetch order, of the form's submissions whose e-mail equals
\* the requested one case-insensitively
C28_Matches ==
  {n \in DOMAIN served[job.form] : MatchesEmail(served[job.form][n], Lower(job.email))}

C28_First == CHOOSE n \in C28_Matches : \A o \in C28_Matches : n <= o

\* the number of the page that holds submission n
C28_PageOf(n) == ((n - 1) \div UpstreamPageSize) + 1

C28_Sent(method) == {k \in DOMAIN job.requests : job.requests[k].method = method}

(* C28: run_latest_for_email_live processes exactly the first submission, in
   fetch order, whose e-mail equals the requested one case-insensitively: the
   pages are fetched in order up to the one that holds it and none after it,
   process_deduped_item is invoked once, with the requested e-mail and that
   submission's fields; and when no submission matches, the answer is
   no_submission_found and no search and no PATCH was sent. *)
C28_FirstMatchOnly ==
  job.kind = "email" /\ job.form \in DOMAIN served =>
    /\ \A k \in C28_Sent("GET") :
         /\ job.requests[k].after = (IF k = 1 THEN NoToken ELSE k)
         /\ C28_Matches # {} => k <= C28_PageOf(C28_First)
    /\ Cardinality(C28_Sent("POST")) <= 1
    /\ Cardinality(C28_Sent("PATCH")) <= 1
    /\ \A k \in C28_Sent("POST") \cup C28_Sent("PATCH") :
         /\ C28_Matches # {}
         /\ Cardinality(C28_Sent("GET")) = C28_PageOf(C28_First)
         /\ \A g \in C28_Sent("GET") : g < k
    /\ \A k \in C28_Sent("POST") : job.requests[k].email = job.email
    /\ job.pc \in {"search", "patch"} =>
         /\ C28_Matches # {}
         /\ job.fields = extract_submission_email_and_fields(
                           served[job.form][C28_First]).fields
         /\ Cardinality(C28_Sent("POST")) = (IF job.pc = "search" THEN 0 ELSE 1)
    /\ job.pc = "done" /\ job.response.status = "complete" =>
         /\ C28_Matches # {}
         /\ job.fields = extract_submission_email_and_fields(
                           served[job.form][C28_First]).fields
         /\ Cardinality(C28_Sent("POST")) = 1
    /\ job.pc = "done" /\ job.response.status = "no_submission_found" =>
         /\ C28_Matches = {}
         /\ C28_Sent("POST") \cup C28_Sent("PATCH") = {}
    /\ job.pc = "done" /\ C28_Matches = {} /\ job.response.code = 200 =>
         job.response.status = "no_submission_found"

\* the first page holds a submission without e-mail and then the first match,
\* the second page another match: one page was fetched and one search made
C28_Witness ==
  /\ job.kind = "email"
  /\ job.pc = "done"
  /\ job.response.status = "complete"
  /\ job.email = JaneUpper
  /\ Len(served["f1"]) = 3
  /\ C28_Matches = {2, 3}
  /\ job.fields = extract_submission_email_and_fields(served["f1"][2]).fields
  /\ job.fields # extract_submission_email_and_fields(served["f1"][3]).fields
  /\ Len(job.requests) = 2

\* ------------------------------------------------------------------------
\* run_batch_for_form called with any offset and any limit
\* ------------------------------------------------------------------------

InitSlice ==
  /\ FORM_PROPERTY_MAP = MapTwoForms
  /\ CallIdle
  /\ PlannerIdle
  /\ DedupeIdle
  /\ KILLED = FALSE
  /\ DRY_RUN_FORCE = FALSE
  /\ served = [f1 |-> << >>, f2 |-> << >>]
  /\ crm = BatchCrmAtStart
  /\ \E items \in Snapshots :
       prepared = [f \in RequestForms |-> IF f = "f1" THEN File(items) ELSE NoFile]
  /\ csv = [f \in RequestForms |-> NoFile]
  /\ job = IdleJob
  /\ control = NoControl
  /\ \E o \in (0 - 2)..(MaxItems + 1), l \in (0 - 1)..MaxLimit :
       client = [ClientOff EXCEPT !.pc = "ready", !.form = "f1", !.offset = o, !.limit = l]
  /\ AppIdle

SpecSlice == InitSlice /\ [][NextBatch]_vars

\* a summary of run_batch_for_form has been returned to the caller's request
C25_Summary == job.kind = "batch" /\ job.pc = "done" /\ job.response.code = 200

(* C25: in every summary of run_batch_for_form over a snapshot of total
   rows, with offset' the offset (negative ones taken as 0) and limit' the
   limit (non-positive ones taken as 100): if offset' < total then
   processed_count = min(limit', total - offset'), remaining = total -
   (offset' + processed_count) and next_offset = offset' + processed_count
   when remaining > 0, null when remaining = 0; if offset' >= total then
   processed_count = 0, remaining = 0, next_offset = null and no upstream
   request was made. *)
C25_SummaryArithmetic ==
  C25_Summary =>
    LET total == Len(prepared["f1"].content)
        offset == IF client.offset < 0 THEN 0 ELSE client.offset
        limit == IF client.limit <= 0 THEN 100 ELSE client.limit
        processed == IF limit < total - offset THEN limit ELSE total - offset
    IN /\ job.response.status = "complete"
       /\ job.offset = offset
       /\ job.total = total
       /\ IF offset < total
          THEN /\ job.processed_count = processed
               /\ job.remaining = total - (offset + processed)
               /\ job.next_offset =
                    IF job.remaining > 0 THEN offset + processed ELSE NoOffset
          ELSE /\ job.processed_count = 0
               /\ job.remaining = 0
               /\ job.next_offset = NoOffset
               /\ job.requests = << >>

\* a call with a negative offset and limit 0 has processed a snapshot of
\* three rows in one slice
C25_Witness ==
  /\ C25_Summary
  /\ client.offset < 0
  /\ client.limit = 0
  /\ job.processed_count = 3
  /\ job.remaining = 0
  /\ job.next_offset = NoOffset

SnapshotOf(form_id) == prepared[form_id].content

\* ceil(total / limit)
CeilDiv(total, limit) == (total + limit - 1) \div limit

\* C11 as stated: with an unchanged snapshot and a positive limit, the chain
\* of calls from offset 0 along next_offset processes every snapshot item
\* exactly once, in snapshot order, and ends with next_offset = None after
\* ceil(total/limit) calls.
C11_ChainCoversSnapshotInCeilCalls ==
  client.pc = "ended" =>
    /\ client.processed = [n \in DOMAIN SnapshotOf(client.form) |->
                             SnapshotOf(client.form)[n].email]
    /\ client.calls = CeilDiv(Len(SnapshotOf(client.form)), client.limit)

\* C11, amended: the same, the chain ending after max(1, ceil(total/limit))
\* calls (the call at offset 0 is made also for an empty snapshot); while the
\* chain runs the processed items are a prefix of the snapshot.
C11_ChainCoversSnapshot ==
  LET emails == [n \in DOMAIN SnapshotOf(client.form) |-> SnapshotOf(client.form)[n].email]
      total == Len(emails)
  IN /\ client.pc \in {"ready", "waiting", "ended"} =>
          /\ Len(client.processed) <= total
          /\ client.processed = SubSeq(emails, 1, Len(client.processed))
     /\ client.pc = "ended" =>
          /\ client.processed = emails
          /\ client.calls = IF total = 0 THEN 1 ELSE CeilDiv(total, client.limit)

\* a snapshot of three items run in slices of two: two calls, the second
\* starting at the slice boundary
C11_Witness ==
  /\ client.pc = "ended"
  /\ client.limit = 2
  /\ Len(SnapshotOf(client.form)) = 3
  /\ client.calls = 2
  /\ client.offset = 2
  /\ Len(client.processed) = 3

\* the PATCH requests of the running request (one per update_contact call:
\* the log keeps the answer safe_request ended with), and those answered
\* with success
PatchesSent == {k \in DOMAIN job.requests : job.requests[k].method = "PATCH"}
PatchesDone == {k \in PatchesSent : ~RaisesForStatus(job.requests[k].answer)}

\* the record under process_deduped_item has a contact, and the plan computed
\* from the found contact is not empty
C18_ContactAndPlan ==
  /\ \E id \in DOMAIN crm : crm[id]["email"] = job.email
  /\ compute_updates_for_submission(FORM_PROPERTY_MAP, job.form, job.fields,
                                    get_contact_by_email(job.email)[1]) # EmptyDict

(* C18: in write mode without DRY_RUN_FORCE, process_deduped_item sends one
   PATCH for a record whose contact is found and whose plan is non-empty
   (the search step hands the record to the PATCH step, which sends one
   PATCH and leaves the record), and none otherwise; a record counts as
   updated exactly in the step whose PATCH was answered with success; the
   updated_count of a returned summary is the number of PATCH requests of
   the batch. *)
C18_OnePatchPerPlannedRecord ==
  /\ [][ (job.mode = "write" /\ ~DRY_RUN_FORCE /\ job.kind = "batch") =>
           /\ (job.pc = "search" /\ SentNow /\ ~RaisesForStatus(LastSent.answer)) =>
                /\ LastSent.method = "POST"
                /\ job'.pc = "patch" <=> C18_ContactAndPlan
           /\ (job.pc = "patch" /\ job' # job) =>
                /\ SentNow
                /\ LastSent = [PatchRequest(job.contact_id, job.updates)
                                 EXCEPT !.answer = LastSent.answer]
                /\ job'.pc # "patch"
           /\ (job.pc \in {"search", "patch"} /\ job' # job) =>
                (job'.updated_count = job.updated_count + 1
                   <=> (SentNow /\ LastSent.method = "PATCH"
                          /\ ~RaisesForStatus(LastSent.answer))) ]_vars
  /\ []((job.mode = "write" /\ ~DRY_RUN_FORCE /\ job.kind = "batch") =>
           /\ job.updated_count = Cardinality(PatchesDone)
           /\ Cardinality(PatchesSent) <= job.processed_count + 1
           /\ job.response.status = "complete" =>
                job.updated_count = Cardinality(PatchesSent))

\* a returned write-mode summary of two records: one PATCH for the record
\* with a plan, none for the record whose plan is empty
C18_Witness ==
  /\ job.kind = "batch"
  /\ job.mode = "write"
  /\ job.response.status = "complete"
  /\ job.processed_count = 2
  /\ job.not_found_count = 0
  /\ job.updated_count = 1
  /\ Cardinality(PatchesSent) = 1

(* C20: in run_batch_for_form an error raised by the search or the PATCH
   of one record does not abort the batch: the record is counted, the loop
   goes on to the next record of the slice, and the call does not fail. *)
C20_RecordErrorDoesNotAbortBatch ==
  [][ (job.kind = "batch" /\ job.pc \in {"search", "patch"} /\ SentNow
         /\ RaisesForStatus(LastSent.answer)) =>
        /\ job'.response.status # "error"
        /\ job'.processed_count = job.processed_count + 1
        /\ job.i < Len(job.batch) => (job'.pc = "search" /\ job'.i = job.i + 1) ]_vars

\* ---------------------------------------------------------------------------
\* safe_request (main.py): one invocation, attempt by attempt.  The upstream
\* chooses the answer to every attempt.
\* ---------------------------------------------------------------------------

max_retries == 5

DigitValue(c) ==
  CASE c = "0" -> 0 [] c = "1" -> 1 [] c = "2" -> 2 [] c = "3" -> 3 [] c = "4" -> 4
    [] c = "5" -> 5 [] c = "6" -> 6 [] c = "7" -> 7 [] c = "8" -> 8 [] c = "9" -> 9
    [] OTHER -> 0 - 1

IsDigits(s) == s # << >> /\ \A i \in DOMAIN s : DigitValue(s[i]) >= 0

RECURSIVE DecimalValue(_)
DecimalValue(s) ==
  IF s = << >> THEN 0
  ELSE 10 * DecimalValue(SubSeq(s, 1, Len(s) - 1)) + DigitValue(s[Len(s)])

\* retry_after = resp.headers.get("Retry-After", "3"), then int(retry_after)
\* with 3 on ValueError.  A header is None when the answer does not carry it;
\* the headers of the model are strings of digits or strings without a digit.
RetrySecs(header) ==
  LET retry_after == IF header = None THEN <<"3">> ELSE header
  IN IF IsDigits(retry_after) THEN DecimalValue(retry_after) ELSE 3

GivesUp_OneEarly(attempt) == attempt >= max_retries

\* if attempt > max_retries
GivesUp(attempt) == attempt > max_retries

Soon == <<"s", "o", "o", "n">>

RetryAfterHeaders == {None, <<"2">>, <<"1", "0">>, Soon}

\* X-HubSpot-RateLimit-Remaining: absent, below 5, from 5 to 9, 10 or more,
\* and not a number
RemainingHeaders == {None, <<"3">>, <<"7">>, <<"1", "2">>, Soon}

\* the answers of the upstream with the two headers the code reads
CallAnswers ==
  {[code |-> 429, retry_after |-> h, remaining |-> None] : h \in RetryAfterHeaders}
    \cup {[code |-> c, retry_after |-> None, remaining |-> None] : c \in {304, 500}}
    \cup {[code |-> 200, retry_after |-> h, remaining |-> q] :
            h \in {None, <<"2">>, Soon}, q \in RemainingHeaders}

\* apply_rate_limit_heuristics(resp.headers): the sleeps it takes, in
\* milliseconds.  int() raising skips the sleep of its block.
apply_rate_limit_heuristics(headers) ==
  LET retry_after == headers.retry_after
      remaining == headers.remaining
      first == IF Truthy(retry_after) /\ IsDigits(retry_after)
               THEN << 1000 * DecimalValue(retry_after) >>
               ELSE << >>
      second == IF remaining # None /\ IsDigits(remaining)
                THEN IF DecimalValue(remaining) < 5 THEN << 4000 >>
                     ELSE IF DecimalValue(remaining) < 10 THEN << 2000 >>
                     ELSE << >>
                ELSE << >>
  IN first \o second \o << 150 >>

\* a caller invokes safe_request: max_retries = 5, attempt = 0
SafeRequestCall ==
  /\ call.pc \in {"off", "returned", "raised"}
  /\ call' = [NoCall EXCEPT !.pc = "sending"]
  /\ UNCHANGED notCall

\* one round of the while loop: the request is sent and the answer handled,
\* the sleep before the next round included
SafeRequestAttemptFrom_RetriesServerErrors(Answers) ==
  /\ call.pc = "sending"
  /\ \E answer \in Answers :
       LET attempt == call.attempt + 1
           got == [call EXCEPT !.attempt = attempt, !.answers = Append(@, answer)]
       IN call' =
            IF answer.code = 429 \/ answer.code >= 500
            THEN IF GivesUp(attempt)
                 THEN [got EXCEPT !.pc = "raised"]
                 ELSE [got EXCEPT !.sleeps = Append(@, RetrySecs(answer.retry_after))]
            ELSE IF RaisesForStatus(answer.code)
                 THEN [got EXCEPT !.pc = "raised"]
                 ELSE [got EXCEPT !.pc = "returned",
                                  !.slowdown = apply_rate_limit_heuristics(answer)]
  /\ UNCHANGED notCall

SafeRequestAttemptFrom(Answers) ==
  /\ call.pc = "sending"
  /\ \E answer \in Answers :
       LET attempt == call.attempt + 1
           got == [call EXCEPT !.attempt = attempt, !.answers = Append(@, answer)]
       IN call' =
            IF answer.code = 429
            THEN IF GivesUp(attempt)
                 THEN [got EXCEPT !.pc = "raised"]
                 ELSE [got EXCEPT !.sleeps = Append(@, RetrySecs(answer.retry_after))]
            ELSE IF RaisesForStatus(answer.code)
                 THEN [got EXCEPT !.pc = "raised"]
                 ELSE [got EXCEPT !.pc = "returned",
                                  !.slowdown = apply_rate_limit_heuristics(answer)]
  /\ UNCHANGED notCall

SafeRequestAttempt == SafeRequestAttemptFrom(CallAnswers)

InitRetry ==
  /\ FORM_PROPERTY_MAP = MapTwoForms
  /\ PlannerIdle
  /\ DedupeIdle
  /\ MainIdle
  /\ UpstreamIdle
  /\ AppIdle
  /\ CallIdle

NextRetry == SafeRequestCall \/ SafeRequestAttempt

\* the loop has no blocking step other than the request and the sleep
SpecRetry == InitRetry /\ [][NextRetry]_vars /\ WF_vars(SafeRequestAttempt)

C13_Advised(header) ==
  IF header # None /\ IsDigits(header) THEN DecimalValue(header) ELSE 3

C13_AllRateLimited == \A k \in 1..Len(call.answers) : call.answers[k].code = 429

C13_Attempts ==
  LET n == Len(call.answers) IN
  /\ call.attempt = n
  /\ n <= 6
  /\ Len(call.sleeps) <= 5
  /\ \A k \in 1..Len(call.sleeps) :
       /\ call.answers[k].code = 429
       /\ call.sleeps[k] = C13_Advised(call.answers[k].retry_after)
  /\ (call.pc = "sending" /\ n >= 1) =>
       /\ call.answers[n].code = 429
       /\ Len(call.sleeps) = n
  /\ (C13_AllRateLimited /\ n = 6) => (call.pc = "raised" /\ Len(call.sleeps) = 5)
  /\ (C13_AllRateLimited /\ n < 6) => call.pc \in {"off", "sending"}
  /\ call.pc = "raised" => call.answers[n].code >= 400
  /\ (n >= 1 /\ call.answers[n].code \in 200..299) => call.pc = "returned"
  /\ call.pc = "returned" => ~RaisesForStatus(call.answers[n].code)

\* C13: on a 429 answer safe_request sleeps the Retry-After seconds (3 when
\* the header is missing or not an integer) and sends the request again;
\* when every answer is 429 it raises at the sixth attempt, after five
\* retries; a 2xx answer to any of the six attempts is returned; every
\* invocation ends, returning or raising.
C13_RetriesOnRateLimit ==
  /\ [] C13_Attempts
  /\ (call.pc = "sending") ~> (call.pc \in {"returned", "raised"})

C13_Witness ==
  /\ call.pc = "raised"
  /\ call.attempt = 6
  /\ C13_AllRateLimited
  /\ call.sleeps = <<3, 2, 10, 3, 2>>
  /\ call.answers[4].retry_after = Soon

RECURSIVE SumOf(_)
SumOf(q) == IF q = << >> THEN 0 ELSE Head(q) + SumOf(Tail(q))

(* C22: after a successful answer the slowdown follows a precedence: with a
   Retry-After header, that many seconds and no sleep for the remaining
   quota; otherwise 4 s when the remaining quota is below 5, 2 s when it is
   from 5 to 9, nothing when it is 10 or more or absent; and 0.15 s added in
   every case.  Durations in milliseconds; stated for headers that are absent
   or integers. *)
C22_SlowdownByPrecedence ==
  (call.pc = "returned"
     /\ (call.answers[call.attempt].retry_after = None
           \/ IsDigits(call.answers[call.attempt].retry_after))
     /\ (call.answers[call.attempt].remaining = None
           \/ IsDigits(call.answers[call.attempt].remaining))) =>
    LET h == call.answers[call.attempt]
    IN SumOf(call.slowdown) =
         150 + (IF h.retry_after # None THEN 1000 * DecimalValue(h.retry_after)
                ELSE IF h.remaining = None THEN 0
                ELSE IF DecimalValue(h.remaining) < 5 THEN 4000
                ELSE IF DecimalValue(h.remaining) < 10 THEN 2000
                ELSE 0)

\* ---------------------------------------------------------------------------
\* A page fetch through safe_request: POST /prepare-run/f1 fetches the pages
\* of the form, and every fetch_form_submissions is one safe_request call
\* whose outcome decides the fetch.
\* ---------------------------------------------------------------------------

FetchAnswers ==
  {[code |-> 429, retry_after |-> h, remaining |-> None] : h \in {None, <<"2">>}}
    \cup {[code |-> c, retry_after |-> None, remaining |-> None] : c \in {200, 304, 404, 500}}

\* the call of the request the job sends next
Pending == call.caller = Len(job.requests) + 1

\* resp = safe_request("get", url, ...) in fetch_form_submissions
FetchCall ==
  /\ job.pc = "fetch"
  /\ call.pc # "sending"
  /\ ~Pending
  /\ call' = [NoCall EXCEPT !.pc = "sending", !.caller = Len(job.requests) + 1]
  /\ UNCHANGED notCall

FetchAttempt == SafeRequestAttemptFrom(FetchAnswers)

\* safe_request has raised or returned: the exception leaves the handler, a
\* returned response is parsed (resp.json()) and the page handled.  The body
\* of a response that is not 2xx is the upstream's choice: it parses as a
\* page, or resp.json() raises.
FetchReturn ==
  /\ job.pc = "fetch"
  /\ Pending
  /\ call.pc \in {"returned", "raised"}
  /\ LET code == call.answers[call.attempt].code
     IN \/ \E tail \in BOOLEAN : FetchPageAnswered(code, tail)
        \/ /\ call.pc = "returned"
           /\ code \notin 200..299
           /\ job' = Failed(Sent(job, GetRequest(job.form, job.after), code))
           /\ UNCHANGED <<KILLED, DRY_RUN_FORCE, control, prepared, csv,
                          upstreamVars, notMain>>

InitFetch ==
  /\ FORM_PROPERTY_MAP = MapTwoForms
  /\ CallIdle
  /\ PlannerIdle
  /\ DedupeIdle
  /\ KILLED = FALSE
  /\ DRY_RUN_FORCE = FALSE
  /\ served \in {sv \in ServedChoices : Len(sv.f1) >= 1 /\ Len(sv.f2) = 0}
  /\ crm = CrmAtStart
  /\ prepared = [f \in RequestForms |-> NoFile]
  /\ csv = [f \in RequestForms |-> NoFile]
  /\ job = IdleJob
  /\ control = NoControl
  /\ client = ClientOff
  /\ AppIdle

NextFetch ==
  \/ PrepareRun(GoodHeader, "f1") /\ UNCHANGED client
  \/ FetchCall
  \/ FetchAttempt
  \/ FetchReturn /\ UNCHANGED client

SpecFetch == InitFetch /\ [][NextFetch]_vars

\* the answer of the attempt a step makes
C23_Answer == call'.answers[call'.attempt]

C23_IsAttempt == call.pc = "sending" /\ call'.attempt = call.attempt + 1

\* no request of the job follows one whose call raised, and no call is made
\* for a job that has ended
C23_RunAborts ==
  /\ \A k \in 1..Len(job.requests) :
       RaisesForStatus(job.requests[k].answer) =>
         /\ k = Len(job.requests)
         /\ job.pc = "done"
         /\ job.response = [code |-> 500, status |-> "error"]
         /\ prepared["f1"] = NoFile
  /\ job.pc = "done" => call.caller <= Len(job.requests)

(* C23, as amended: a 4xx or 5xx answer other than 429 ends safe_request at
   that attempt: it raises, with no sleep and no further attempt, so that no
   answer of a call other than its last is anything but a 429; and when the
   call was a page fetch the request ends as an error with no further page
   fetched and nothing saved. *)
C23_ErrorStatusRaisesAtOnce ==
  /\ [][(C23_IsAttempt /\ RaisesForStatus(C23_Answer.code) /\ C23_Answer.code # 429) =>
          /\ call'.pc = "raised"
          /\ call'.sleeps = call.sleeps
          /\ call'.slowdown = << >>]_vars
  /\ [](\A k \in 1..(Len(call.answers) - 1) : call.answers[k].code = 429)
  /\ [](call.pc = "raised" => call.attempt = Len(call.answers))
  /\ []C23_RunAborts

\* the first of two pages is answered 429 and then 500: the call raises at
\* its second attempt and the second page is never fetched
C23_Witness ==
  /\ job.pc = "done"
  /\ job.response.status = "error"
  /\ Len(served["f1"]) = 2
  /\ Len(job.requests) = 1
  /\ job.requests[1].answer = 500
  /\ call.pc = "raised"
  /\ call.attempt = 2
  /\ call.sleeps = << 3 >>

(* C23, as written: every answer that is neither 2xx nor 429 makes
   safe_request raise at that attempt without a sleep. *)
C23_NonSuccessRaisesAtOnce ==
  [][(C23_IsAttempt /\ C23_Answer.code \notin 200..299 /\ C23_Answer.code # 429) =>
       /\ call'.pc = "raised"
       /\ call'.sleeps = call.sleeps]_vars

\* ---------------------------------------------------------------------------
\* fetch_form_submissions: the normalisation of the paging token, applied to
\* one response body (resp.json()).
\* ---------------------------------------------------------------------------

\* JSON values: null, a string, an object (its keys are the domain of val)
JNull == [type |-> "null"]
JStr(s) == [type |-> "str", str |-> s]
JObj(d) == [type |-> "dict", val |-> d]

\* isinstance(v, dict), isinstance(v, str)
IsDict(v) == v.type = "dict"
IsStr(v) == v.type = "str"

\* obj.get(key, default)
JGet(obj, key, default) == IF key \in DOMAIN obj.val THEN obj.val[key] ELSE default

\* Python truthiness of a JSON value
JTruthy(v) ==
  CASE v.type = "str" -> v.str # EmptyStr
    [] v.type = "dict" -> DOMAIN v.val # {}
    [] OTHER -> FALSE

\* None.get or str.get: AttributeError
AttributeError == [type |-> "AttributeError"]

\* next_after of a body in which the top-level "next" comes first
NormalizeAfter_TopLevelFirst(data) ==
  LET paging == JGet(data, "paging", JNull)
      next == JGet(data, "next", JNull)
      first == IF IsDict(next) THEN JGet(next, "after", JNull)
               ELSE IF IsStr(next) THEN next ELSE JNull
      inner == IF IsDict(paging) THEN JGet(paging, "next", JObj(EmptyDict)) ELSE JNull
  IN IF IsDict(paging) /\ ~IsDict(inner) THEN AttributeError
     ELSE IF ~JTruthy(first) /\ IsDict(paging) THEN JGet(inner, "after", JNull)
     ELSE first

\* next_after as fetch_form_submissions computes it
NormalizeAfter(data) ==
  LET paging == JGet(data, "paging", JNull)
      next == JGet(data, "next", JNull)
      inner == IF IsDict(paging) THEN JGet(paging, "next", JObj(EmptyDict)) ELSE JNull
      first == IF IsDict(paging) THEN JGet(inner, "after", JNull) ELSE JNull
      second == IF ~JTruthy(first) /\ IsDict(next) THEN JGet(next, "after", JNull)
                ELSE first
      third == IF ~JTruthy(second) /\ IsStr(next) THEN next ELSE second
  IN IF IsDict(paging) /\ ~IsDict(inner) THEN AttributeError ELSE third

\* the tokens of the upstream: non-empty strings
Tokens == {<<"a">>, <<"b">>}

AfterObjects ==
  {JObj(EmptyDict)} \cup {JObj([after |-> v]) : v \in {JNull} \cup {JStr(t) : t \in Tokens}}

PagingValues ==
  {JNull, JObj(EmptyDict)} \cup {JObj([next |-> n]) : n \in AfterObjects \cup {JNull}}

NextValues == {JNull} \cup AfterObjects \cup {JStr(t) : t \in Tokens}

ResultsValues == {<< >>, << Submission(<< Value("email", Jane) >>, 1, 0) >>}

\* a key that is absent, or present with one of the values
Optional(key, values) == {EmptyDict} \cup {[k \in {key} |-> v] : v \in values}

Merge(a, b) == [k \in DOMAIN a \cup DOMAIN b |-> IF k \in DOMAIN a THEN a[k] ELSE b[k]]

Bodies ==
  {JObj(Merge(r, Merge(p, n))) : r \in Optional("results", ResultsValues),
                                 p \in Optional("paging", PagingValues),
                                 n \in Optional("next", NextValues)}

\* data = resp.json() ... return {"results": results, "after": next_after}
ParseBody ==
  /\ fetched.pc = "body"
  /\ LET next_after == NormalizeAfter(fetched.data)
     IN fetched' =
          IF next_after = AttributeError THEN [fetched EXCEPT !.pc = "raised"]
          ELSE [fetched EXCEPT !.pc = "page",
                               !.page = [results |-> JGet(fetched.data, "results", << >>),
                                         after |-> next_after]]
  /\ UNCHANGED notPaging

InitPaging ==
  /\ FORM_PROPERTY_MAP = MapTwoForms
  /\ PlannerIdle
  /\ DedupeIdle
  /\ MainIdle
  /\ UpstreamIdle
  /\ AppIdle
  /\ call = NoCall
  /\ \E data \in Bodies : fetched = [NoBody EXCEPT !.pc = "body", !.data = data]

NextPaging == ParseBody

SpecPaging == InitPaging /\ [][NextPaging]_vars

\* the body has one of the shapes of the claim: "paging" absent or an object,
\* "paging.next" absent or an object, "next" absent, an object or a string
C24_Shaped(data) ==
  /\ "paging" \in DOMAIN data.val =>
       /\ IsDict(data.val["paging"])
       /\ "next" \in DOMAIN data.val["paging"].val => IsDict(data.val["paging"].val["next"])
  /\ "next" \in DOMAIN data.val => (IsDict(data.val["next"]) \/ IsStr(data.val["next"]))

\* the token of {"paging": {"next": {"after": t}}}, of {"next": {"after": t}}
\* and of {"next": t}; JNull where the body has no such token
C24_PagingToken(data) ==
  IF "paging" \in DOMAIN data.val /\ "next" \in DOMAIN data.val["paging"].val
       /\ "after" \in DOMAIN data.val["paging"].val["next"].val
       /\ IsStr(data.val["paging"].val["next"].val["after"])
  THEN data.val["paging"].val["next"].val["after"] ELSE JNull

C24_NextObjectToken(data) ==
  IF "next" \in DOMAIN data.val /\ IsDict(data.val["next"])
       /\ "after" \in DOMAIN data.val["next"].val /\ IsStr(data.val["next"].val["after"])
  THEN data.val["next"].val["after"] ELSE JNull

C24_NextStringToken(data) ==
  IF "next" \in DOMAIN data.val /\ IsStr(data.val["next"]) THEN data.val["next"] ELSE JNull

(* C24: for every body of the shapes above, fetch_form_submissions returns
   as "after" the token of the nested paging form, else that of the object
   form of "next", else the string "next", and None when the body carries no
   token; and it returns the body's "results" unchanged (the empty list when
   the body has none).  Tokens are non-empty strings. *)
C24_AfterIsNormalised ==
  C24_Shaped(fetched.data) =>
    /\ fetched.pc \in {"body", "page"}
    /\ fetched.pc = "page" =>
         /\ fetched.page.after =
              IF C24_PagingToken(fetched.data) # JNull THEN C24_PagingToken(fetched.data)
              ELSE IF C24_NextObjectToken(fetched.data) # JNull
              THEN C24_NextObjectToken(fetched.data)
              ELSE C24_NextStringToken(fetched.data)
         /\ fetched.page.results =
              IF "results" \in DOMAIN fetched.data.val THEN fetched.data.val["results"]
              ELSE << >>

\* a body carrying both the nested paging token and a top-level one
C24_Witness ==
  /\ fetched.pc = "page"
  /\ C24_Shaped(fetched.data)
  /\ C24_PagingToken(fetched.data) = JStr(<<"a">>)
  /\ C24_NextObjectToken(fetched.data) = JStr(<<"b">>)
  /\ fetched.page.after = JStr(<<"a">>)
  /\ Len(fetched.page.results) = 1

\* ---------------------------------------------------------------------------
\* app.py: the unified /run-all service.  Every POST /run-all starts a daemon
\* thread running background_job; the threads share the files under data/,
\* the uploaded file, the export and the CRM.
\* ---------------------------------------------------------------------------

ThreadIds == {"t1", "t2"}

\* the interval of the checkpoint, (i + 1) % 100 == 0 in the code, scaled
CHECKPOINT_EVERY == 2

Min(a, b) == IF a <= b THEN a ELSE b
Max(a, b) == IF a >= b THEN a ELSE b

\* update_job_status(**kwargs): the file is replaced by the keyword arguments
update_job_status(kwargs) == File(kwargs)

\* read_job_status(): {"status": "idle"} when the file does not exist
read_job_status == IF job_status.exists THEN job_status.content ELSE [status |-> "idle"]

\* find_contact_by_email(email): the id of the first contact whose email
\* equals the searched one, or "" for None
find_contact_by_email(email) ==
  LET hits == {id \in DOMAIN crm : crm[id]["email"] = email}
  IN IF hits = {} THEN "" ELSE CHOOSE id \in hits : TRUE

\* the payload of recover_contacts: both checkbox properties, each from the
\* parsed boxes with the default "Not Checked"
RecoverPayload(boxes) ==
  [p \in CHECKBOX_PROPERTIES |-> IF p \in DOMAIN boxes THEN boxes[p] ELSE NotChecked]

\* start_idx of recover_contacts: one past the first submission whose email
\* matches start_email (lowercased, stripped), 0 when none matches
RECURSIVE StartIdx_NoStrip(_, _, _)
StartIdx_NoStrip(subs, start_email, i) ==
  IF i >= Len(subs) THEN 0
  ELSE LET email == parse_submission(subs[i + 1]).email
       IN IF Truthy(email) /\ Lower(email) = Lower(start_email)
          THEN i + 1
          ELSE StartIdx_NoStrip(subs, start_email, i + 1)

RECURSIVE StartIdx(_, _, _)
StartIdx(subs, start_email, i) ==
  IF i >= Len(subs) THEN 0
  ELSE LET email == parse_submission(subs[i + 1]).email
       IN IF Truthy(email) /\ Strip(Lower(email)) = Strip(Lower(start_email))
          THEN i + 1
          ELSE StartIdx(subs, start_email, i + 1)

\* the index one past the last element of the Python slice subs[start:end]
SliceStop(start, end, total) ==
  LET e == IF end < 0 THEN Max(end + total, 0) ELSE Min(end, total)
  IN Max(start, e)

\* the thread moves to the record at index n, or out of the loop
MoveTo(th, n) == [th EXCEPT !.i = n, !.pc = IF n < th.stop THEN "record" ELSE "finish"]

\* the tail of one loop iteration that was not cut short by continue:
\* the checkpoint every 100 records
CheckpointDue(th) == (th.i + 1) % CHECKPOINT_EVERY = 0

\* the thread's record of its own write at the checkpoint
Noted(th) == IF CheckpointDue(th) THEN [th EXCEPT !.written = Append(@, "running")] ELSE th

Checkpoint(th) ==
  IF CheckpointDue(th)
  THEN update_job_status([status |-> "running", current |-> th.i + 1, total |-> th.total,
                          success |-> th.success, errors |-> th.errors])
  ELSE job_status

ThreadSent(t) == Len(threads'[t].requests) = Len(threads[t].requests) + 1
ThreadLastSent(t) == threads'[t].requests[Len(threads'[t].requests)]

\* mutant: the job recovers whether or not start_email is given
AppRunAll_AlwaysRecovers(t, form_id, start_email, limit) ==
  /\ threads[t].pc \in {"idle", "ended"}
  /\ threads' = [threads EXCEPT ![t] =
       [IdleThread EXCEPT !.pc = "open", !.start_email = start_email, !.limit = limit]]
  /\ UNCHANGED <<job_status, uploaded, page_files, deduped_file, latest_export,
                 upstreamVars, notApp>>

\* POST /run-all: starts a thread and returns; resume mode when start_email
\* is truthy, prep mode otherwise.  form_id is read in prep mode only, limit
\* in resume mode only, and the thread keeps just the one it reads.
AppRunAll(t, form_id, start_email, limit) ==
  /\ threads[t].pc \in {"idle", "ended"}
  /\ threads' = [threads EXCEPT ![t] =
       [IdleThread EXCEPT !.pc = IF Truthy(start_email) THEN "open" ELSE "fetch",
                          !.form = IF Truthy(start_email) THEN "" ELSE form_id,
                          !.start_email = start_email,
                          !.limit = IF Truthy(start_email) THEN limit ELSE 0]]
  /\ UNCHANGED <<job_status, uploaded, page_files, deduped_file, latest_export,
                 upstreamVars, notApp>>

\* background_job, resume mode: load the uploaded file and enter
\* recover_contacts up to its first update_job_status
ResumeOpen(t) ==
  LET th == threads[t] IN
  /\ th.pc = "open"
  /\ IF ~uploaded.exists
     THEN /\ job_status' = update_job_status([status |-> "error", message |-> "FileNotFoundError"])
          /\ threads' = [threads EXCEPT ![t] = EndedThread(th, <<"error">>)]
     ELSE LET subs == uploaded.content
              start_idx == StartIdx(subs, th.start_email, 0)
              total == Len(subs)
              end_idx == Min(start_idx + th.limit, total)
              stop == SliceStop(start_idx, end_idx, total)
          IN /\ job_status' = update_job_status([status |-> "running", current |-> start_idx,
                                                   total |-> total])
             /\ threads' = [threads EXCEPT ![t] =
                  MoveTo([th EXCEPT !.subs = subs, !.total = total, !.stop = stop,
                                    !.written = <<"running">>], start_idx)]
  /\ UNCHANGED <<uploaded, page_files, deduped_file, latest_export, upstreamVars, notApp>>

\* one iteration of the loop of recover_contacts up to the answer of the search
RecordSearch(t) ==
  LET th == threads[t]
      parsed == parse_submission(th.subs[th.i + 1])
      email == parsed.email
  IN
  /\ th.pc = "record"
  /\ IF ~Truthy(email)
     THEN /\ threads' = [threads EXCEPT ![t] = MoveTo(th, th.i + 1)]
          /\ UNCHANGED job_status
     ELSE \E answer \in {"ok", "raise"} :
            LET sent == [th EXCEPT !.requests =
                           Append(@, [SearchRequest(email) EXCEPT
                                        !.answer = IF answer = "ok" THEN 200 ELSE 404])]
                cid == find_contact_by_email(email)
            IN IF answer = "raise"
               THEN /\ job_status' = Checkpoint([sent EXCEPT !.errors = @ + 1])
                    /\ threads' = [threads EXCEPT ![t] =
                         MoveTo(Noted([sent EXCEPT !.errors = @ + 1]), th.i + 1)]
               ELSE IF cid = ""
               THEN /\ threads' = [threads EXCEPT ![t] = MoveTo(sent, th.i + 1)]
                    /\ UNCHANGED job_status
               ELSE /\ threads' = [threads EXCEPT ![t] =
                         [sent EXCEPT !.pc = "patch", !.cid = cid, !.boxes = parsed.consent]]
                    /\ UNCHANGED job_status
  /\ UNCHANGED <<uploaded, page_files, deduped_file, latest_export, upstreamVars, notApp>>

\* mutant: a PATCH that is not ok is passed over without counting it
RecordPatch_FailureUncounted(t) ==
  LET th == threads[t]
      payload == RecoverPayload(th.boxes)
  IN
  /\ th.pc = "patch"
  /\ \E answer \in {"ok", "not_ok", "raise"} :
       LET code == IF answer = "ok" THEN 200 ELSE IF answer = "not_ok" THEN 404 ELSE 0
           sent == [th EXCEPT !.requests =
                                Append(@, [PatchRequest(th.cid, payload) EXCEPT !.answer = code]),
                              !.cid = "", !.boxes = EmptyDict]
       IN IF answer = "ok"
          THEN /\ crm' = [crm EXCEPT ![th.cid] = ApplyProperties(@, payload)]
               /\ job_status' = Checkpoint([sent EXCEPT !.success = @ + 1])
               /\ threads' = [threads EXCEPT ![t] =
                    MoveTo(Noted([sent EXCEPT !.success = @ + 1]), th.i + 1)]
          ELSE IF answer = "not_ok"
          THEN /\ UNCHANGED <<crm, job_status>>
               /\ threads' = [threads EXCEPT ![t] = MoveTo(sent, th.i + 1)]
          ELSE /\ UNCHANGED crm
               /\ job_status' = Checkpoint([sent EXCEPT !.errors = @ + 1])
               /\ threads' = [threads EXCEPT ![t] =
                    MoveTo(Noted([sent EXCEPT !.errors = @ + 1]), th.i + 1)]
  /\ UNCHANGED <<served, uploaded, page_files, deduped_file, latest_export, notApp>>

\* the PATCH of recover_contacts and the rest of the iteration
RecordPatch(t) ==
  LET th == threads[t]
      payload == RecoverPayload(th.boxes)
  IN
  /\ th.pc = "patch"
  /\ \E answer \in {"ok", "not_ok", "raise"} :
       LET code == IF answer = "ok" THEN 200 ELSE IF answer = "not_ok" THEN 404 ELSE 0
           sent == [th EXCEPT !.requests =
                                Append(@, [PatchRequest(th.cid, payload) EXCEPT !.answer = code]),
                              !.cid = "", !.boxes = EmptyDict]
       IN IF answer = "ok"
          THEN /\ crm' = [crm EXCEPT ![th.cid] = ApplyProperties(@, payload)]
               /\ job_status' = Checkpoint([sent EXCEPT !.success = @ + 1])
               /\ threads' = [threads EXCEPT ![t] =
                    MoveTo(Noted([sent EXCEPT !.success = @ + 1]), th.i + 1)]
          ELSE IF answer = "not_ok"
          THEN /\ UNCHANGED <<crm, job_status>>
               /\ threads' = [threads EXCEPT ![t] =
                    MoveTo([sent EXCEPT !.errors = @ + 1], th.i + 1)]
          ELSE /\ UNCHANGED crm
               /\ job_status' = Checkpoint([sent EXCEPT !.errors = @ + 1])
               /\ threads' = [threads EXCEPT ![t] =
                    MoveTo(Noted([sent EXCEPT !.errors = @ + 1]), th.i + 1)]
  /\ UNCHANGED <<served, uploaded, page_files, deduped_file, latest_export, notApp>>

\* recover_contacts after the loop: the final status, and the thread ends
ResumeFinish(t) ==
  LET th == threads[t] IN
  /\ th.pc = "finish"
  /\ job_status' = update_job_status([status |-> "complete", success |-> th.success,
                                      errors |-> th.errors, total |-> th.total])
  /\ threads' = [threads EXCEPT ![t] = EndedThread(th, Append(th.written, "complete"))]
  /\ UNCHANGED <<uploaded, page_files, deduped_file, latest_export, upstreamVars, notApp>>

\* mutant: every page is written to a new file
WritePage_AlwaysAppends(files, n, lines) == Append(files, lines)

\* writing data/submissions_page_NNNN.jsonl for page number n
WritePage(files, n, lines) ==
  IF n <= Len(files) THEN [files EXCEPT ![n] = lines] ELSE Append(files, lines)

\* the rows of the CSV export under its header
ExportRows(subs) ==
  [k \in 1..Len(subs) |->
     LET parsed == parse_submission(subs[k])
     IN << IF Truthy(parsed.email) THEN parsed.email ELSE EmptyStr,
           IF TermsProp \in DOMAIN parsed.consent
             THEN parsed.consent[TermsProp] ELSE EmptyStr,
           IF MarketingProp \in DOMAIN parsed.consent
             THEN parsed.consent[MarketingProp] ELSE EmptyStr >>]

\* the answer of the form-submissions endpoint as fetch_submissions reads it:
\* results, and paging.next.after or None
SubmissionsPage(form_id, after, tail) ==
  LET pages == Paginate(served[form_id])
      k == IF after # NoToken THEN after ELSE 1
      results == IF k <= Len(pages) THEN pages[k] ELSE << >>
  IN [results |-> results,
      after |-> IF k < Len(pages) \/ (k = Len(pages) /\ tail) THEN k + 1 ELSE NoToken]

\* one round of the loop of fetch_submissions: a page is requested and, when
\* it has results, saved under its page number.  A 404 raises HTTPException
\* and every other 4xx or 5xx raises in raise_for_status; background_job
\* catches both and writes the status "error".
PrepFetch(t) ==
  LET th == threads[t] IN
  /\ th.pc = "fetch"
  /\ \E answer \in UpstreamAnswers, tail \in BOOLEAN :
       LET page == SubmissionsPage(th.form, th.after, tail)
           sent == [th EXCEPT !.requests =
                      Append(@, [GetRequest(th.form, th.after) EXCEPT !.answer = answer])]
       IN IF RaisesForStatus(answer)
          THEN /\ job_status' = update_job_status([status |-> "error", message |-> "HTTP"])
               /\ threads' = [threads EXCEPT ![t] = EndedThread(sent, Append(th.written, "error"))]
               /\ UNCHANGED page_files
          ELSE IF page.results = << >>
          THEN /\ threads' = [threads EXCEPT ![t] = [sent EXCEPT !.pc = "dedupe"]]
               /\ UNCHANGED <<page_files, job_status>>
          ELSE /\ page_files' = WritePage(page_files, th.page_idx, page.results)
               /\ threads' = [threads EXCEPT ![t] =
                    IF page.after = NoToken
                    THEN [sent EXCEPT !.pc = "dedupe", !.total = @ + Len(page.results)]
                    ELSE [sent EXCEPT !.after = page.after, !.page_idx = @ + 1,
                                      !.total = @ + Len(page.results)]]
               /\ UNCHANGED job_status
  /\ UNCHANGED <<uploaded, deduped_file, latest_export, upstreamVars, notApp>>

\* background_job, prep mode after the fetch: dedupe_submissions over the
\* page files on disk, then the CSV export
PrepDedupe(t) ==
  LET th == threads[t] IN
  /\ th.pc = "dedupe"
  /\ IF page_files = << >>
     THEN /\ job_status' = update_job_status([status |-> "error", message |-> "404"])
          /\ threads' = [threads EXCEPT ![t] = EndedThread(th, Append(th.written, "error"))]
          /\ UNCHANGED <<deduped_file, latest_export>>
     ELSE LET subs == dedupe_submissions(page_files)
          IN /\ deduped_file' = File(subs)
             /\ latest_export' = File(ExportRows(subs))
             /\ threads' = [threads EXCEPT ![t] = EndedThread(th, th.written)]
             /\ UNCHANGED job_status
  /\ UNCHANGED <<uploaded, page_files, upstreamVars, notApp>>

\* ---------------------------------------------------------------------------
\* The app.py service on small inputs
\* ---------------------------------------------------------------------------

\* the submissions of an input, served and uploaded together: of the
\* service with one job at a time, and with overlapping jobs
MaxUploaded == 3
MaxOverlapped == 2

AppForm == "f1"

JaneFull ==
  Submission(<<Value("email", Jane), Value(TermsProp, Checked),
               Value(MarketingProp, Checked)>>, 2, 0)
JaneBare == Submission(<<Value("email", Jane)>>, 1, 0)
BobOld == Submission(<<Value("email", Bob), Value(TermsProp, NotChecked)>>, 0, 3)
NoEmail == Submission(<<Value(TermsProp, Checked)>>, 1, 0)

UploadedSamples == {JaneFull, JaneBare, BobOld, NoEmail}
ServedSamples == {JaneFull, BobOld}

AppLists(S, n) == UNION {[1..k -> S] : k \in 0..n}

AppCrmAtStart ==
  [id \in {"c42"} |->
     (TermsProp :> Checked) @@ (MarketingProp :> None) @@ ("email" :> Jane)]

StartEmails == {None, Bob}

AppLimits == {1, 2, 3}

\* the served submissions and the uploaded file, n submissions in all
AppInputs(n) ==
  {in \in AppLists(ServedSamples, n)
            \X ({NoFile} \cup {File(l) : l \in AppLists(UploadedSamples, n)}) :
     Len(in[1]) + Len(in[2].content) <= n}

InitAppWith(n) ==
  /\ FORM_PROPERTY_MAP = MapTwoForms
  /\ CallIdle
  /\ PlannerIdle
  /\ DedupeIdle
  /\ MainIdle
  /\ \E in \in AppInputs(n) :
       /\ served = [f \in {AppForm} |-> in[1]]
       /\ uploaded = in[2]
  /\ crm = AppCrmAtStart
  /\ threads = [t \in ThreadIds |-> IdleThread]
  /\ job_status = NoFile
  /\ page_files = << >>
  /\ deduped_file = NoFile
  /\ latest_export = NoFile

InitApp == InitAppWith(MaxOverlapped)

NextApp ==
  \/ \E t \in ThreadIds, e \in StartEmails, n \in AppLimits : AppRunAll(t, AppForm, e, n)
  \/ \E t \in ThreadIds : ResumeOpen(t)
  \/ \E t \in ThreadIds : RecordSearch(t)
  \/ \E t \in ThreadIds : RecordPatch(t)
  \/ \E t \in ThreadIds : ResumeFinish(t)
  \/ \E t \in ThreadIds : PrepFetch(t)
  \/ \E t \in ThreadIds : PrepDedupe(t)

SpecApp == InitApp /\ [][NextApp]_vars

\* the service when /run-all is posted only while no job runs
InitAppSeq == InitAppWith(MaxUploaded)

NextAppSeq ==
  \/ \E e \in StartEmails, n \in AppLimits :
       /\ \A t \in ThreadIds : threads[t].pc \in {"idle", "ended"}
       /\ AppRunAll("t1", AppForm, e, n)
  \/ ResumeOpen("t1")
  \/ RecordSearch("t1")
  \/ RecordPatch("t1")
  \/ ResumeFinish("t1")
  \/ PrepFetch("t1")
  \/ PrepDedupe("t1")

SpecAppSeq == InitAppSeq /\ [][NextAppSeq]_vars

\* the same, the thread inside recover_contacts being scheduled as long as it
\* has a step to take (its requests carry a timeout, its sleeps are finite)
SpecAppSeqFair ==
  /\ SpecAppSeq
  /\ WF_vars(RecordSearch("t1"))
  /\ WF_vars(RecordPatch("t1"))
  /\ WF_vars(ResumeFinish("t1"))


\* ---------------------------------------------------------------------------
\* Claims about app.py
\* ---------------------------------------------------------------------------

\* C4: recover_contacts never changes a CRM checkbox property that already
\* holds a non-empty value: no step of a job changes such a property, and
\* every PATCH it sends carries only properties whose current CRM value is
\* None or empty, whether or not the submission carries the checkbox field.
C4_RecoverNeverChangesSetProperty ==
  [][ /\ \A id \in DOMAIN crm : \A p \in CHECKBOX_PROPERTIES :
            crm'[id][p] # crm[id][p] => crm[id][p] \in {None, EmptyStr}
      /\ \A t \in ThreadIds :
            (ThreadSent(t) /\ ThreadLastSent(t).method = "PATCH") =>
               \A p \in DOMAIN ThreadLastSent(t).properties :
                  crm[ThreadLastSent(t).id][p] \in {None, EmptyStr} ]_vars

\* the statuses that end a job
TerminalStatuses == {"complete", "error", "killed"}

\* C12: the statuses a /run-all job writes to the job-status file are
\* "running" first and a terminal status last: a job that has not ended has
\* written nothing but "running", and a job that has ended has written
\* "running" at least once and then exactly one of complete, error, killed.
C12_RunningThenOneTerminal ==
  \A t \in ThreadIds :
    LET w == threads[t].written IN
    /\ threads[t].pc \notin {"idle", "ended"} => \A k \in 1..Len(w) : w[k] = "running"
    /\ threads[t].pc = "ended" =>
         /\ Len(w) >= 2
         /\ w[Len(w)] \in TerminalStatuses
         /\ \A k \in 1..(Len(w) - 1) : w[k] = "running"

\* C16: a /run-all job without start_email sends nothing but page requests
\* to the submissions endpoint, never a contact search or a PATCH, and no
\* step of it changes a contact, whatever the upstream serves.
C16_PrepNeverTouchesContacts ==
  /\ [](\A t \in ThreadIds :
          ~Truthy(threads[t].start_email) =>
             \A k \in DOMAIN threads[t].requests : threads[t].requests[k].method = "GET")
  /\ [][ \A t \in ThreadIds :
           (threads'[t] # threads[t] /\ ~Truthy(threads'[t].start_email)) =>
              crm' = crm ]_vars

\* a prep job that fetched two pages, deduplicated them and exported the CSV
C16_Witness ==
  /\ threads["t1"].pc = "ended"
  /\ ~Truthy(threads["t1"].start_email)
  /\ Len(threads["t1"].requests) >= 2
  /\ Len(page_files) = 2
  /\ deduped_file.exists
  /\ latest_export.exists
  /\ crm = AppCrmAtStart

\* C19: while recover_contacts runs, the records handled since the last
\* persisted "current" are at most the checkpoint interval, whatever the
\* outcome of each record.
C19_CheckpointEveryInterval ==
  \A t \in ThreadIds :
    (threads[t].pc \in {"record", "patch", "finish"} /\ job_status.exists
       /\ job_status.content.status = "running") =>
      threads[t].i - job_status.content.current <= CHECKPOINT_EVERY

\* the PATCH requests of a thread that were answered OK
PatchesOk(t) ==
  {k \in DOMAIN threads[t].requests :
     threads[t].requests[k].method = "PATCH" /\ threads[t].requests[k].answer = 200}

(* C21: in recover_contacts a request of a record that raises, or a PATCH
   that is not ok, adds one to the error counter and the loop goes on with
   the next record, and nothing else adds to it; success is the number of
   PATCH requests answered OK and success + errors is at most the number of
   records handled; the job leaves the loop by writing "complete" with the
   two counters, and every job that entered recover_contacts gets there. *)
C21_ErrorsCountedRunCompletes ==
  /\ [][ \A t \in ThreadIds :
           LET th == threads[t]
               after == threads'[t]
               failed == ThreadSent(t) /\ ThreadLastSent(t).answer # 200
           IN /\ (th.pc \in {"record", "patch"} /\ after # th) =>
                   /\ after.errors = th.errors + (IF failed THEN 1 ELSE 0)
                   /\ failed => (after.i = th.i + 1 /\ after.pc \in {"record", "finish"})
              /\ (th.pc = "finish" /\ after # th) =>
                   /\ after.pc = "ended"
                   /\ job_status' = update_job_status(
                        [status |-> "complete", success |-> th.success,
                         errors |-> th.errors, total |-> th.total]) ]_vars
  /\ [](\A t \in ThreadIds :
          threads[t].pc \in {"record", "patch", "finish"} =>
            /\ threads[t].success = Cardinality(PatchesOk(t))
            /\ threads[t].success + threads[t].errors
                 <= threads[t].i - StartIdx(threads[t].subs, threads[t].start_email, 0)
            /\ threads[t].i <= threads[t].stop)
  /\ \A t \in ThreadIds :
       (threads[t].pc \in {"record", "patch", "finish"})
          ~> (threads[t].pc = "ended" /\ job_status.exists
                /\ job_status.content.status = "complete")

\* a job over three records that ended with one update, one failed PATCH and
\* one search that raised
C21_Witness ==
  /\ threads["t1"].pc = "ended"
  /\ job_status.exists
  /\ job_status.content.status = "complete"
  /\ job_status.content.success = 1
  /\ job_status.content.errors = 2
  /\ \E k \in DOMAIN threads["t1"].requests :
       threads["t1"].requests[k].method = "PATCH" /\ threads["t1"].requests[k].answer = 404
  /\ \E k \in DOMAIN threads["t1"].requests :
       threads["t1"].requests[k].method = "POST" /\ threads["t1"].requests[k].answer = 404

\* ---------------------------------------------------------------------------
\* Replay: records processed a second time in write mode.  Either a caller
\* of /run-form/f1/batch goes back to an earlier offset (main.py), or a
\* second resume job of /run-all starts after the first has ended (app.py).
\* The rows of the snapshot and the records of the uploaded file carry
\* distinct e-mails, so that a contact is written by one record only.
\* ---------------------------------------------------------------------------

ReplayCall ==
  /\ client.pc = "ready"
  /\ RunFormBatch(GoodHeader, client.form, "write", client.offset, client.limit)
  /\ client' = [client EXCEPT !.pc = "waiting"]

\* client.processed: the e-mails of the rows for which process_deduped_item
\* has returned
ReplaySearch ==
  /\ Search
  /\ client' = [client EXCEPT !.processed =
                  IF job'.pc = "patch" \/ job'.response.status = "error" THEN @
                  ELSE Append(@, job.email)]

ReplayPatch ==
  /\ Patch
  /\ client' = [client EXCEPT !.processed =
                  IF job'.response.status = "error" THEN @ ELSE Append(@, job.email)]

\* the caller starts again at an earlier offset, as after a crash, until a
\* row has been processed twice
ReplayFrom ==
  /\ client.pc \in {"ready", "ended", "failed"}
  /\ \A a, b \in DOMAIN client.processed : client.processed[a] = client.processed[b] => a = b
  /\ \E o \in 0..(Len(prepared[client.form].content) - 1) :
       /\ client.pc = "ready" => o < client.offset
       /\ client' = [client EXCEPT !.pc = "ready", !.offset = o]
  /\ UNCHANGED <<FORM_PROPERTY_MAP, plannerVars, dedupeVars, mainVars, upstreamVars,
                 appVars, call, fetched>>

\* POST /run-all in resume mode: the first job, and the second after it
ReplayRunAll(t) ==
  /\ threads # << >>
  /\ threads["t2"].pc = "idle"
  /\ threads["t1"].pc = (IF t = "t1" THEN "idle" ELSE "ended")
  /\ \E n \in AppLimits : AppRunAll(t, AppForm, Bob, n)

InitReplay ==
  \/ InitBatch
  \/ /\ InitAppWith(MaxUploaded)
     /\ uploaded.exists
     /\ \A a, b \in DOMAIN uploaded.content :
          parse_submission(uploaded.content[a]).email
            = parse_submission(uploaded.content[b]).email => a = b

NextReplay ==
  \/ ReplayCall
  \/ ReplaySearch
  \/ ReplayPatch
  \/ ClientReturn
  \/ ReplayFrom
  \/ \E t \in ThreadIds : ReplayRunAll(t)
  \/ \E t \in ThreadIds : threads # << >> /\ ResumeOpen(t)
  \/ \E t \in ThreadIds : threads # << >> /\ RecordSearch(t)
  \/ \E t \in ThreadIds : threads # << >> /\ RecordPatch(t)
  \/ \E t \in ThreadIds : threads # << >> /\ ResumeFinish(t)

SpecReplay == InitReplay /\ [][NextReplay]_vars

\* process_deduped_item has returned for a row with this e-mail
C29_Processed(email) == \E k \in DOMAIN client.processed : client.processed[k] = email

\* the first job has ended and had its PATCH of this contact answered OK
C29_Recovered(cid) ==
  /\ threads["t1"].pc = "ended"
  /\ \E k \in DOMAIN threads["t1"].requests :
       /\ threads["t1"].requests[k].method = "PATCH"
       /\ threads["t1"].requests[k].answer = 200
       /\ threads["t1"].requests[k].id = cid

(* C29: processing in write mode a record that was processed before leaves
   every property of every contact as it was: in main.py a row of the
   snapshot for which process_deduped_item had returned, in app.py a record
   whose PATCH the first job had answered OK. *)
C29_ReplayLeavesContacts ==
  /\ [][(job.kind = "batch" /\ job.pc \in {"search", "patch"} /\ C29_Processed(job.email))
          => crm' = crm]_vars
  /\ [][(threads # << >> /\ threads["t2"].pc = "patch" /\ C29_Recovered(threads["t2"].cid))
          => crm' = crm]_vars

\* main.py: the PATCH of a row processed for the second time was answered OK
C29_Witness ==
  /\ job.kind = "batch"
  /\ Len(job.requests) >= 2
  /\ job.requests[Len(job.requests)].method = "PATCH"
  /\ job.requests[Len(job.requests)].answer = 200
  /\ \E a, b \in DOMAIN client.processed :
       /\ a < b
       /\ client.processed[a] = job.requests[Len(job.requests) - 1].email
       /\ client.processed[b] = job.requests[Len(job.requests) - 1].email

\* app.py: the second job has had its PATCH of a contact answered OK that
\* the first job had written
C29_WitnessRecover ==
  /\ threads # << >>
  /\ \E k \in DOMAIN threads["t2"].requests :
       /\ threads["t2"].requests[k].method = "PATCH"
       /\ threads["t2"].requests[k].answer = 200
       /\ C29_Recovered(threads["t2"].requests[k].id)

\* ---------------------------------------------------------------------------
\* recover_contacts on every start_email and limit: one resume job over an
\* uploaded file
\* ---------------------------------------------------------------------------

BobShout == Space \o <<"B", "@", "X">> \o Space

RecoverStartEmails == {Bob, BobShout, Cat}

\* limit is a query parameter of /run-all: any integer
RecoverLimits == (0 - 2)..MaxUploaded

InitRecover == InitAppWith(MaxUploaded) /\ uploaded.exists /\ served[AppForm] = << >>

NextRecover ==
  \/ \E e \in RecoverStartEmails, n \in RecoverLimits :
       /\ threads["t1"].pc = "idle"
       /\ AppRunAll("t1", AppForm, e, n)
  \/ ResumeOpen("t1")
  \/ RecordSearch("t1")
  \/ RecordPatch("t1")
  \/ ResumeFinish("t1")

SpecRecover == InitRecover /\ [][NextRecover]_vars

\* the records whose e-mail equals start_email ignoring case and surrounding
\* whitespace, by their position in the file (1 for the first)
C30_Matching ==
  {n \in DOMAIN uploaded.content :
     LET email == parse_submission(uploaded.content[n]).email
     IN Truthy(email)
          /\ Strip(Lower(email)) = Strip(Lower(threads["t1"].start_email))}

\* start_idx: one past the index of the first of them, 0 when there is none
C30_First ==
  IF C30_Matching = {} THEN 0
  ELSE CHOOSE n \in C30_Matching : \A o \in C30_Matching : n <= o

\* the index of the last record of the claim: min(start_idx + limit, len) - 1
C30_Last == Min(C30_First + threads["t1"].limit, Len(uploaded.content)) - 1

\* the index of the last record of the Python slice subs[start_idx:end_idx]:
\* a negative end_idx counts from the end of the list
C30_SliceLast ==
  IF C30_First + threads["t1"].limit < 0
  THEN Max(Len(uploaded.content) + C30_First + threads["t1"].limit, 0) - 1
  ELSE C30_Last

C30_Enters(last) ==
  threads["t1"].pc = "open" /\ threads'["t1"] # threads["t1"] =>
    /\ threads'["t1"].i = C30_First
    /\ threads'["t1"].pc = (IF C30_First <= last THEN "record" ELSE "finish")

C30_Advances(last) ==
  threads["t1"].pc \in {"record", "patch"} /\ threads'["t1"].i # threads["t1"].i =>
    /\ threads'["t1"].i = threads["t1"].i + 1
    /\ threads'["t1"].pc = (IF threads["t1"].i + 1 <= last THEN "record" ELSE "finish")

C30_Within(last) ==
  threads["t1"].pc \in {"record", "patch"} =>
    C30_First <= threads["t1"].i /\ threads["t1"].i <= last

(* C30, as amended: recover_contacts(start_email, limit, subs) processes
   exactly the records of the slice subs[start_idx : min(start_idx + limit,
   len(subs))], in order, where start_idx is one past the first record whose
   e-mail equals start_email ignoring case and surrounding whitespace, and 0
   when no record matches: the indices start_idx .. min(start_idx + limit,
   len(subs)) - 1 when start_idx + limit >= 0, and start_idx .. len(subs) +
   start_idx + limit - 1 when it is negative. *)
C30_ProcessesThePythonSlice ==
  /\ [][C30_Enters(C30_SliceLast) /\ C30_Advances(C30_SliceLast)]_vars
  /\ []C30_Within(C30_SliceLast)

\* the file's first record is Bob's and the job, started with " B@X " and
\* limit 2, is at the second of the two records after it
C30_Witness ==
  /\ threads["t1"].pc = "record"
  /\ threads["t1"].start_email = BobShout
  /\ threads["t1"].limit = 2
  /\ Len(uploaded.content) = 3
  /\ C30_First = 1
  /\ threads["t1"].i = 2

(* C30, as written: the records processed are those at the indices
   start_idx .. min(start_idx + limit, len(subs)) - 1, for every limit. *)
C30_ProcessesTheSlice ==
  /\ [][C30_Enters(C30_Last) /\ C30_Advances(C30_Last)]_vars
  /\ []C30_Within(C30_Last)

\* ---------------------------------------------------------------------------
\* app.py: prep runs one after the other, for either of two forms
\* ---------------------------------------------------------------------------

PrepForms == {"f1", "f2"}

\* the falsy values of start_email: absent and empty
PrepStartEmails == {None, EmptyStr}

\* the data directory is empty when the service is first deployed
InitPrep ==
  /\ FORM_PROPERTY_MAP = MapTwoForms
  /\ CallIdle
  /\ PlannerIdle
  /\ DedupeIdle
  /\ MainIdle
  /\ served \in [PrepForms -> AppLists(ServedSamples, MaxOverlapped)]
  /\ uploaded = NoFile
  /\ crm = AppCrmAtStart
  /\ threads = [t \in ThreadIds |-> IdleThread]
  /\ job_status = NoFile
  /\ page_files = << >>
  /\ deduped_file = NoFile
  /\ latest_export = NoFile

\* /run-all without start_email, posted only while no job runs
NextPrep ==
  \/ \E f \in PrepForms, e \in PrepStartEmails :
       /\ \A t \in ThreadIds : threads[t].pc \in {"idle", "ended"}
       /\ AppRunAll("t1", f, e, 1)
  \/ PrepFetch("t1")
  \/ PrepDedupe("t1")

SpecPrep == InitPrep /\ [][NextPrep]_vars

\* the pages with results that the page requests of a run returned, in order:
\* the pages fetch_submissions saved in that run
RECURSIVE C32_Pages(_)
C32_Pages(requests) ==
  IF requests = << >> THEN << >>
  ELSE LET r == Head(requests)
           results == IF RaisesForStatus(r.answer) THEN << >>
                      ELSE SubmissionsPage(r.form, r.after, FALSE).results
       IN (IF results = << >> THEN << >> ELSE << results >>)
          \o C32_Pages(Tail(requests))

RECURSIVE C32_Flatten(_)
C32_Flatten(pages) ==
  IF pages = << >> THEN << >> ELSE Head(pages) \o C32_Flatten(Tail(pages))

\* the submissions the page requests of a run returned, in order
C32_Fetched(requests) == C32_Flatten(C32_Pages(requests))

C32_Elements(q) == {q[k] : k \in DOMAIN q}

\* the prep run of thread t1 has ended after its dedupe and its export
C32_PrepRunDone ==
  /\ threads["t1"].pc = "ended"
  /\ ~Truthy(threads["t1"].start_email)
  /\ threads["t1"].written = << >>
  /\ threads["t1"].requests # << >>

\* the number of page files the run saved, and the page files with a higher
\* number, which the run found on disk and left there
C32_Saved == Len(C32_Pages(threads["t1"].requests))
C32_Left == SubSeq(page_files, C32_Saved + 1, Len(page_files))

\* the deduped file and the CSV hold nothing but what the run fetched
C32_OnlyFetched ==
  LET returned == C32_Fetched(threads["t1"].requests)
  IN /\ C32_Elements(deduped_file.content) \subseteq C32_Elements(returned)
     /\ C32_Elements(latest_export.content)
          \subseteq C32_Elements(ExportRows(returned))

(* C32, as the code has it: after a prep run of app.py the page files 1..k
   hold the k pages that run's fetch returned, the page files of a higher
   number are those an earlier run left, and the deduped file holds only
   submissions of these page files, the CSV being its export; the deduped
   file and the CSV hold only submissions that run's fetch returned when no
   page file of a higher number is on disk. *)
C32_OnlyThisRunsFetchAndLeftPages ==
  C32_PrepRunDone =>
    LET returned == C32_Fetched(threads["t1"].requests)
    IN /\ deduped_file.exists
       /\ latest_export.exists
       /\ Len(page_files) >= C32_Saved
       /\ SubSeq(page_files, 1, C32_Saved) = C32_Pages(threads["t1"].requests)
       /\ C32_Elements(deduped_file.content)
            \subseteq C32_Elements(returned) \cup C32_Elements(C32_Flatten(C32_Left))
       /\ latest_export.content = ExportRows(deduped_file.content)
       /\ Len(page_files) = C32_Saved => C32_OnlyFetched

\* a run that saved one page while the second page file of an earlier run
\* was on disk: the deduped file holds a submission the run did not fetch
C32_Witness ==
  /\ C32_PrepRunDone
  /\ C32_Saved = 1
  /\ Len(page_files) = 2
  /\ deduped_file.exists
  /\ \E s \in C32_Elements(deduped_file.content) :
       /\ s \notin C32_Elements(C32_Fetched(threads["t1"].requests))
       /\ s \in C32_Elements(page_files[2])

(* C32, as stated: after a prep run of app.py (fetch_submissions, then
   dedupe_submissions and the CSV export) every submission of the deduped
   file is one that the page requests of that run returned, and every row
   of the exported CSV is the row of such a submission, whatever prep runs
   came before. *)
C32_OnlyThisRunsFetch ==
  C32_PrepRunDone =>
    /\ deduped_file.exists
    /\ latest_export.exists
    /\ C32_OnlyFetched

(* C27: at most one background job thread started by POST /run-all executes
   the pipeline at any time, however many /run-all requests arrive and
   however they overlap. *)
C27_AtMostOneJobRuns ==
  Cardinality({t \in ThreadIds : threads[t].pc \notin {"idle", "ended"}}) <= 1

====
